---- MODULE Spec2Model ----
(***************************************************************************)
(* A model of smooth_terminal: the terminal grid and the VT performer that *)
(* mutates it (src/terminal/grid.rs, src/terminal/parser.rs), the pane     *)
(* tree and the window event handlers that drive it (src/pane/mod.rs,      *)
(* src/pane/layout.rs, src/app.rs), and the PTY reader thread with its     *)
(* bounded channel (src/terminal/pty.rs, src/terminal/mod.rs).             *)
(*                                                                         *)
(* Indices are 0-based as in the source: a row of cells is a function on   *)
(* 0..cols-1 and the cell buffer a function on 0..rows-1.  The scrollback  *)
(* is a sequence, oldest row first (Vec::push appends, remove(0) drops the *)
(* head).                                                                  *)
(***************************************************************************)
EXTENDS Integers, Sequences, FiniteSets, TLC

VARIABLES
    grid,        \* TerminalGrid (grid.rs:4-33), without title, bracketed_paste,
                 \* cursor_visible and reverse_cursor, which no grid operation reads
    performer,   \* VtePerformer: saved_cursor, origin_mode, auto_wrap (parser.rs:8-16)
    fault,       \* what the last callback did to the thread: "none", a wrapped
                 \* subtraction, or a panic (which ends the thread)
    evicted,     \* history: how many rows scrollback.remove(0) took during the
                 \* last callback (grid.rs:134)
    pane_tree,   \* PaneTree: panes (the ids, in Vec order), layout, focused_id,
                 \* next_id (pane/mod.rs:22-27)
    dead,        \* the panes whose shell process has exited (what
                 \* Terminal::is_pty_dead answers, terminal/mod.rs:51-57)
    windows,     \* App::windows: the ids of the open windows (app.rs:762-767)
    visible,     \* whether the window is shown (window.set_visible)
    pending_close, \* App::pending_close: window ids queued for removal
    frame,       \* history: what the last RedrawRequested frame found dead,
                 \* drained and rendered
    last_split,  \* history: the Result the last split_horizontal or
                 \* split_vertical returned, "none" before the first
    config,      \* App::config
    app_config,  \* Renderer::app_config
    config_file, \* what config.toml holds
    config_rx,   \* the notifications waiting in WindowState::config_rx
    pty_read,    \* history, per PTY: the bytes its reader thread has read so far
    reader,      \* per PTY: the reader thread, [pc, data] (pty.rs:100-114)
    channel,     \* per PTY: the chunks in the bounded channel, oldest first
    receiver_alive, \* per PTY: whether its PtyHandle, and so the Receiver, exists
    ui,          \* the UI thread inside drain_all_pty_output: [pc, todo, chunks]
    consumed,    \* history, per PTY: the bytes its parser has been fed so far
    typed,       \* history: the characters the typing scenario has printed
    scroll_springs,   \* Renderer::scroll_springs: pane id -> ScrollSpring
    cursor_animators, \* Renderer::cursor_animators: the pane ids it has keys for
    selection,   \* WindowState::selection: None or Some of [anchor, head]
    spring,      \* a CriticallyDampedSpring of its own (spring.rs:4-10)
    ticks,       \* history: how many ticks a scenario that counts them has run
    event,       \* the last KeyEvent given to handle_key_event, with the
                 \* modifiers held (input/mod.rs:39-42), or None
    input_action, \* what handle_key_event returned for it (input/mod.rs:10-37)
    url_row,     \* the characters of the row last given to detect_urls
    url_matches, \* what detect_urls returned for it (url.rs:8)
    alt_cursor,  \* history: None, or Some of the cursor position at the last
                 \* CSI ?1049 h
    text_cache,  \* Renderer::text_cache of the pane: None or Some of
                 \* <<generation, span buffers>> (renderer/mod.rs:70)
    scrollback_text_cache, \* Renderer::scrollback_text_cache of the pane: None
                 \* or Some of <<<<scrollback_len, first_abs>>, span buffers>>
    cursor_pos,  \* WindowState::cursor_pos: the pixel under the pointer
    mouse_button_down, \* WindowState::mouse_button_down
    hovered_url, \* WindowState::hovered_url: None or Some of
                 \* <<pane_id, abs_row, col_start, col_end, url>>
    launched,    \* history: None, or Some of the string last given to open
    lock_owner,  \* the thread that holds the pane's grid mutex, or None
    lock_ops,    \* the code path the UI thread runs, and the lock and unlock
                 \* calls on the grid mutex it has yet to make: [path, ops]
    lock_stuck   \* whether a thread waits for the mutex it holds itself

gridVars == <<grid, performer, fault, evicted>>

configVars == <<config, app_config, config_file, config_rx>>

appVars == <<pane_tree, dead, windows, visible, pending_close, frame, last_split,
            configVars>>

ptyVars == <<pty_read, reader, channel, receiver_alive, ui, consumed>>

renderVars == <<scroll_springs, cursor_animators, selection>>

springVars == <<spring, ticks>>

inputVars == <<event, input_action>>

urlVars == <<url_row, url_matches>>

histVars == <<alt_cursor>>

cacheVars == <<text_cache, scrollback_text_cache>>

mouseVars == <<cursor_pos, mouse_button_down, hovered_url, launched>>

lockVars == <<lock_owner, lock_ops, lock_stuck>>

vars == <<gridVars, appVars, ptyVars, typed, renderVars, springVars, inputVars, urlVars, histVars, cacheVars, mouseVars, lockVars>>

----------------------------------------------------------------------------
(* Bounds of the model *)

\* Grid sizes range over 1..MaxCols x 1..MaxRows.
MaxCols == 2
MaxRows == 2
\* Callbacks are applied while generation < MaxGen.
MaxGen == 2
\* scrollback_limit of the modelled grid (10000 in grid.rs:47, scaled down so
\* that the cap is reached).
ScrollbackLimit == 1
\* next_id stays below MaxNextId: a split is taken only while it is
MaxNextId == 3
\* The typing scenario takes grids of up to MaxTypeCols x MaxTypeRows
MaxTypeCols == 3
MaxTypeRows == 2
\* The scroll scenario takes grids of 2 to MaxScrollRows rows, scrolls them
\* while generation is below MaxScrollGen, and gives the scrollback room for
\* ScrollbackRoom rows where it is not kept to ScrollbackLimit
MaxScrollRows == 4
MaxScrollGen == 3
ScrollbackRoom == 8
\* Capacity of the channel between a reader thread and the UI (256 in
\* pty.rs:96, scaled down so that a send finds it full)
ChannelCap == 2
\* A reader thread reads while its stream is shorter than MaxStream bytes
MaxStream == 3

\* usize::MAX, the result of a wrapped 0 - 1.  It is only ever compared with
\* rows - 1 by min(), so any value above every row index behaves the same.
UsizeMax == 2147483647

Min(a, b) == IF a <= b THEN a ELSE b
Max(a, b) == IF a >= b THEN a ELSE b
\* usize::saturating_sub
SatSub(a, b) == IF a >= b THEN a - b ELSE 0

----------------------------------------------------------------------------
(* Cells and attributes (cell.rs) *)

NUL == "NUL"

ColorDefault == <<"Default">>
Indexed(n) == <<"Indexed", n>>
Rgb(r, g, b) == <<"Rgb", r, g, b>>

\* CellAttributes::default()
DefaultAttrs ==
    [fg |-> ColorDefault, bg |-> ColorDefault, bold |-> FALSE, italic |-> FALSE,
     underline |-> FALSE, strikethrough |-> FALSE, blink |-> FALSE,
     reverse |-> FALSE, invisible |-> FALSE, dim |-> FALSE]

\* Cell::default(): ch = '\0', default attributes
DefaultCell == [ch |-> NUL, attrs |-> DefaultAttrs]

\* Cell::new
NewCell(ch, attrs) == [ch |-> ch, attrs |-> attrs]

\* `x as u8`
AsU8(x) == x % 256

\* The printable characters fed to print(): "a" is one column wide, "W" is a
\* wide (East Asian) character of two columns.
Chars == {"a", "W"}
\* UnicodeWidthChar::width(c).unwrap_or(1).max(1)
char_width(c) == IF c = "W" THEN 2 ELSE 1

BlankRow(cols) == [c \in 0..(cols - 1) |-> DefaultCell]

----------------------------------------------------------------------------
(* apply_sgr (parser.rs:444-500) *)

RECURSIVE sgr_loop(_, _, _)
sgr_loop(attrs, params, i) ==
    IF i >= Len(params) THEN attrs
    ELSE
      LET p == params[i + 1]   \* params[i], 0-based in the source
          has(k) == i + k < Len(params)
          at(k) == params[i + k + 1]
      IN
      IF p = 0 THEN sgr_loop(DefaultAttrs, params, i + 1)
      ELSE IF p = 1 THEN sgr_loop([attrs EXCEPT !.bold = TRUE], params, i + 1)
      ELSE IF p = 2 THEN sgr_loop([attrs EXCEPT !.dim = TRUE], params, i + 1)
      ELSE IF p = 3 THEN sgr_loop([attrs EXCEPT !.italic = TRUE], params, i + 1)
      ELSE IF p = 4 THEN sgr_loop([attrs EXCEPT !.underline = TRUE], params, i + 1)
      ELSE IF p \in {5, 6} THEN sgr_loop([attrs EXCEPT !.blink = TRUE], params, i + 1)
      ELSE IF p = 7 THEN sgr_loop([attrs EXCEPT !.reverse = TRUE], params, i + 1)
      ELSE IF p = 8 THEN sgr_loop([attrs EXCEPT !.invisible = TRUE], params, i + 1)
      ELSE IF p = 9 THEN sgr_loop([attrs EXCEPT !.strikethrough = TRUE], params, i + 1)
      ELSE IF p = 22 THEN sgr_loop([attrs EXCEPT !.bold = FALSE, !.dim = FALSE], params, i + 1)
      ELSE IF p = 23 THEN sgr_loop([attrs EXCEPT !.italic = FALSE], params, i + 1)
      ELSE IF p = 24 THEN sgr_loop([attrs EXCEPT !.underline = FALSE], params, i + 1)
      ELSE IF p = 25 THEN sgr_loop([attrs EXCEPT !.blink = FALSE], params, i + 1)
      ELSE IF p = 27 THEN sgr_loop([attrs EXCEPT !.reverse = FALSE], params, i + 1)
      ELSE IF p = 28 THEN sgr_loop([attrs EXCEPT !.invisible = FALSE], params, i + 1)
      ELSE IF p = 29 THEN sgr_loop([attrs EXCEPT !.strikethrough = FALSE], params, i + 1)
      ELSE IF p \in 30..37 THEN
          sgr_loop([attrs EXCEPT !.fg = Indexed(AsU8(p) - 30)], params, i + 1)
      ELSE IF p = 38 THEN
          IF has(1) /\ at(1) = 5 /\ has(2) THEN
              sgr_loop([attrs EXCEPT !.fg = Indexed(AsU8(at(2)))], params, i + 3)
          ELSE IF has(1) /\ at(1) = 2 /\ has(4) THEN
              sgr_loop([attrs EXCEPT !.fg = Rgb(AsU8(at(2)), AsU8(at(3)), AsU8(at(4)))],
                       params, i + 5)
          ELSE sgr_loop(attrs, params, i + 1)
      ELSE IF p = 39 THEN sgr_loop([attrs EXCEPT !.fg = ColorDefault], params, i + 1)
      ELSE IF p \in 40..47 THEN
          sgr_loop([attrs EXCEPT !.bg = Indexed(AsU8(p) - 40)], params, i + 1)
      ELSE IF p = 48 THEN
          IF has(1) /\ at(1) = 5 /\ has(2) THEN
              sgr_loop([attrs EXCEPT !.bg = Indexed(AsU8(at(2)))], params, i + 3)
          ELSE IF has(1) /\ at(1) = 2 /\ has(4) THEN
              sgr_loop([attrs EXCEPT !.bg = Rgb(AsU8(at(2)), AsU8(at(3)), AsU8(at(4)))],
                       params, i + 5)
          ELSE sgr_loop(attrs, params, i + 1)
      ELSE IF p = 49 THEN sgr_loop([attrs EXCEPT !.bg = ColorDefault], params, i + 1)
      ELSE IF p \in 90..97 THEN
          sgr_loop([attrs EXCEPT !.fg = Indexed(AsU8(p) - 90 + 8)], params, i + 1)
      ELSE IF p \in 100..107 THEN
          sgr_loop([attrs EXCEPT !.bg = Indexed(AsU8(p) - 100 + 8)], params, i + 1)
      ELSE sgr_loop(attrs, params, i + 1)

\* apply_sgr without the early return of parser.rs:446-449
apply_sgr_empty_ignored(attrs, params) == sgr_loop(attrs, params, 0)

apply_sgr(attrs, params) ==
    IF Len(params) = 0 THEN DefaultAttrs ELSE sgr_loop(attrs, params, 0)

----------------------------------------------------------------------------
(* TerminalGrid (grid.rs) *)

\* TerminalGrid::new.  removed is not a field of the struct: it counts the
\* calls of scrollback.remove(0) within one callback.
GridNew(cols, rows) ==
    [cols |-> cols, rows |-> rows,
     cells |-> [r \in 0..(rows - 1) |-> BlankRow(cols)],
     cursor_col |-> 0, cursor_row |-> 0,
     scroll_top |-> 0, scroll_bottom |-> SatSub(rows, 1),
     scrollback |-> <<>>, scrollback_limit |-> ScrollbackLimit,
     current_attrs |-> DefaultAttrs,
     pending_wrap |-> FALSE,
     generation |-> 0,
     removed |-> 0]

bump(g) == [g EXCEPT !.generation = @ + 1]

\* resize: the top-left intersection of the old buffer is kept
resize(g, cols, rows) ==
    IF cols = g.cols /\ rows = g.rows THEN g
    ELSE
      LET copy_rows == Min(g.rows, rows)
          copy_cols == Min(g.cols, cols)
          new_cells == [r \in 0..(rows - 1) |-> [c \in 0..(cols - 1) |->
                          IF r < copy_rows /\ c < copy_cols
                          THEN g.cells[r][c] ELSE DefaultCell]]
      IN [g EXCEPT !.generation = @ + 1,
                   !.cols = cols, !.rows = rows, !.cells = new_cells,
                   !.cursor_col = Min(g.cursor_col, SatSub(cols, 1)),
                   !.cursor_row = Min(g.cursor_row, SatSub(rows, 1)),
                   !.scroll_top = 0,
                   !.scroll_bottom = SatSub(rows, 1),
                   !.pending_wrap = FALSE]

set_cell(g, col, row, ch) ==
    IF row < g.rows /\ col < g.cols
    THEN [g EXCEPT !.cells[row][col] = NewCell(ch, g.current_attrs),
                   !.generation = @ + 1]
    ELSE g

\* clear_line without the count of grid.rs:93
clear_line_uncounted(g, row) ==
    IF row < g.rows
    THEN [g EXCEPT !.cells[row] = BlankRow(g.cols)]
    ELSE g

clear_line(g, row) ==
    IF row < g.rows
    THEN [g EXCEPT !.cells[row] = BlankRow(g.cols), !.generation = @ + 1]
    ELSE g

clear_line_range(g, row, col_start, col_end) ==
    IF row < g.rows
    THEN LET end == Min(col_end, g.cols)
         IN [g EXCEPT !.cells[row] = [c \in 0..(g.cols - 1) |->
                                        IF c >= col_start /\ c < end
                                        THEN DefaultCell ELSE g.cells[row][c]],
                      !.generation = @ + 1]
    ELSE g

\* for r in lo..hi { clear_line(r) }, in increasing r
RECURSIVE clear_lines(_, _, _)
clear_lines(g, lo, hi) ==
    IF lo >= hi THEN g ELSE clear_lines(clear_line(g, lo), lo + 1, hi)

\* clear_screen (grid.rs:107-114)
clear_screen(g) ==
    [clear_lines(g, 0, g.rows) EXCEPT !.cursor_col = 0, !.cursor_row = 0,
                                      !.pending_wrap = FALSE]

\* Vec::push without the cap of grid.rs:133-135: the scrollback bound rests on
\* the cap.
push_scrollback_uncapped(g, row) ==
    [g EXCEPT !.scrollback = Append(g.scrollback, row)]

\* Vec::push followed by the cap of grid.rs:133-135
push_scrollback(g, row) ==
    LET pushed == Append(g.scrollback, row)
    IN IF Len(pushed) > g.scrollback_limit
       THEN [g EXCEPT !.scrollback = Tail(pushed), !.removed = @ + 1]
       ELSE [g EXCEPT !.scrollback = pushed]

\* grid.rs:128-137: rows top, top+1, ... go to the scrollback, in that order
\* The loop of grid.rs:128-137 taking the rows from the last to the first:
\* the scrollback would read bottom up.
RECURSIVE push_rows_backwards(_, _, _, _)
push_rows_backwards(g, top, i, count) ==
    IF i >= count THEN g
    ELSE push_rows_backwards(
             IF top + count - 1 - i < g.rows
             THEN push_scrollback(g, g.cells[top + count - 1 - i]) ELSE g,
             top, i + 1, count)

RECURSIVE push_rows(_, _, _, _)
push_rows(g, top, i, count) ==
    IF i >= count THEN g
    ELSE push_rows(IF top + i < g.rows THEN push_scrollback(g, g.cells[top + i]) ELSE g,
                   top, i + 1, count)

scroll_up_region(g, n) ==
    LET g0 == bump(g)
        top == g0.scroll_top
        bottom == Min(g0.scroll_bottom, g0.rows - 1)
    IN
    IF top >= bottom THEN g0
    ELSE
      LET region_height == bottom - top + 1
          count == Min(n, region_height)
          g1 == push_rows(g0, top, 0, count)
          \* grid.rs:140-145: r ascends and reads row r + count, which no
          \* earlier iteration has written
          g2 == [g1 EXCEPT !.cells = [r \in 0..(g1.rows - 1) |->
                     IF r >= top /\ r < bottom + 1 - count
                        /\ r + count <= bottom /\ r + count < g1.rows
                     THEN g1.cells[r + count] ELSE g1.cells[r]]]
      IN clear_lines(g2, bottom + 1 - count, bottom + 1)

scroll_down_region(g, n) ==
    LET g0 == bump(g)
        top == g0.scroll_top
        bottom == Min(g0.scroll_bottom, g0.rows - 1)
    IN
    IF top >= bottom THEN g0
    ELSE
      LET region_height == bottom - top + 1
          count == Min(n, region_height)
          \* r.wrapping_sub(count) for r < count is above every row index
          copies(r) == r >= count /\ r - count >= top /\ r - count <= bottom
                       /\ r < g0.rows
          clears(r) == ~copies(r) /\ r >= top /\ r < top + count /\ r < g0.rows
          \* grid.rs:165-173: r descends and reads row r - count, which no
          \* earlier iteration has written; each cleared row is one clear_line
          g1 == [g0 EXCEPT
                   !.cells = [r \in 0..(g0.rows - 1) |->
                       IF r >= top /\ r <= bottom /\ copies(r) THEN g0.cells[r - count]
                       ELSE IF r >= top /\ r <= bottom /\ clears(r) THEN BlankRow(g0.cols)
                       ELSE g0.cells[r]],
                   !.generation = @ + Cardinality({r \in top..bottom : clears(r)})]
      IN clear_lines(g1, top, Min(top + count, bottom + 1))

newline(g) ==
    LET g0 == [g EXCEPT !.pending_wrap = FALSE]
    IN IF g0.cursor_row = g0.scroll_bottom THEN scroll_up_region(g0, 1)
       ELSE IF g0.cursor_row < g0.rows - 1 THEN [g0 EXCEPT !.cursor_row = @ + 1]
       ELSE g0

carriage_return(g) == [g EXCEPT !.cursor_col = 0, !.pending_wrap = FALSE]

\* The cursor advance without the right-edge test of grid.rs:203: the cursor
\* bound rests on that test.
advance_cursor_past_edge(g, width) ==
    [g EXCEPT !.cursor_col = g.cursor_col + width, !.pending_wrap = FALSE]

advance_cursor_by_width(g, width) ==
    LET next_col == g.cursor_col + width
    IN IF next_col < g.cols
       THEN [g EXCEPT !.cursor_col = next_col, !.pending_wrap = FALSE]
       ELSE [g EXCEPT !.pending_wrap = TRUE]

advance_cursor(g) == advance_cursor_by_width(g, 1)

----------------------------------------------------------------------------
(* VtePerformer (parser.rs) *)

None == <<>>

\* VtePerformer::new
PerformerNew == [saved_cursor |-> None, origin_mode |-> FALSE, auto_wrap |-> TRUE]

\* The result of one callback: the grid, the performer, and what happened to
\* the thread ("none", "wrapped": an unsigned subtraction wrapped around,
\* "panic": an index out of bounds or a checked overflow ended the thread).
Res(g, p, f) == [g |-> g, p |-> p, fault |-> f]

\* An index expression cells[row][col] panics unless it is inside the buffer.
InCells(g, row, col) == row >= 0 /\ row < g.rows /\ col >= 0 /\ col < g.cols
IndexFault(inside) == IF inside THEN "none" ELSE "panic"

\* print without the wrap of parser.rs:34-45: a character that finds the
\* latch set lands on the last column again.
print_without_wrap(g, p, c) ==
    LET width == Max(char_width(c), 1)
        g2 == set_cell(g, g.cursor_col, g.cursor_row, c)
    IN Res(advance_cursor_by_width(g2, width), p, "none")

\* parser.rs:30-57
print(g, p, c) ==
    LET width == Max(char_width(c), 1)
        g1 == IF g.pending_wrap /\ p.auto_wrap
              THEN LET row == g.cursor_row
                       moved == IF row = g.scroll_bottom THEN scroll_up_region(g, 1)
                                ELSE IF row < g.rows - 1
                                     THEN [g EXCEPT !.cursor_row = @ + 1]
                                     ELSE g
                   IN [moved EXCEPT !.cursor_col = 0, !.pending_wrap = FALSE]
              ELSE g
        col == g1.cursor_col
        row == g1.cursor_row
        g2 == set_cell(g1, col, row, c)
        blanks == width = 2 /\ col + 1 < g2.cols
        g3 == IF blanks /\ row < g2.rows
              THEN [g2 EXCEPT !.cells[row][col + 1] = DefaultCell] ELSE g2
    IN Res(advance_cursor_by_width(g3, width), p,
           IndexFault(blanks => InCells(g2, row, col + 1)))

\* A String is the sequence of its chars.  str::trim_end: the whitespace a
\* cell can hold is the space.
RECURSIVE trim_end(_)
trim_end(line) ==
    IF line # <<>> /\ line[Len(line)] = " " THEN trim_end(SubSeq(line, 1, Len(line) - 1))
    ELSE line

\* The chars of row[col_start..col_end], NUL read as a space (grid.rs:270-276)
RECURSIVE row_text(_, _, _)
row_text(row, col, col_end) ==
    IF col >= col_end THEN <<>>
    ELSE <<IF row[col].ch # NUL THEN row[col].ch ELSE " ">> \o row_text(row, col + 1, col_end)

\* The selection ending one column early: col_end is end.1, not end.1 + 1
RECURSIVE selection_lines_end_exclusive(_, _, _, _)
selection_lines_end_exclusive(g, abs_row, start, end) ==
    IF abs_row > end[1] THEN <<>>
    ELSE
      LET slen == Len(g.scrollback)
          vr == abs_row - slen
          rest == selection_lines_end_exclusive(g, abs_row + 1, start, end)
      IN IF abs_row >= slen /\ vr >= g.rows THEN rest
         ELSE LET row == IF abs_row < slen THEN g.scrollback[abs_row + 1] ELSE g.cells[vr]
                  row_len == Cardinality(DOMAIN row)
                  col_start == IF abs_row = start[1] THEN start[2] ELSE 0
                  col_end == Min(IF abs_row = end[1] THEN end[2] ELSE row_len, row_len)
              IN <<trim_end(row_text(row, col_start, col_end))>> \o rest

\* grid.rs:260-279: the lines of the rows abs_row..=end.0; a row past the
\* grid is skipped
RECURSIVE selection_lines(_, _, _, _)
selection_lines(g, abs_row, start, end) ==
    IF abs_row > end[1] THEN <<>>
    ELSE
      LET slen == Len(g.scrollback)
          vr == abs_row - slen
          rest == selection_lines(g, abs_row + 1, start, end)
      IN IF abs_row >= slen /\ vr >= g.rows THEN rest
         ELSE LET row == IF abs_row < slen THEN g.scrollback[abs_row + 1] ELSE g.cells[vr]
                  row_len == Cardinality(DOMAIN row)
                  col_start == IF abs_row = start[1] THEN start[2] ELSE 0
                  col_end == Min(IF abs_row = end[1] THEN end[2] + 1 ELSE row_len, row_len)
              IN <<trim_end(row_text(row, col_start, col_end))>> \o rest

\* Vec<String>::join("\n")
RECURSIVE join(_, _)
join(lines, i) ==
    IF i > Len(lines) THEN <<>>
    ELSE (IF i > 1 THEN <<"\n">> ELSE <<>>) \o lines[i] \o join(lines, i + 1)

\* TerminalGrid::extract_selection
extract_selection(g, start, end) == join(selection_lines(g, start[1], start, end), 1)

\* parser.rs:59-91
execute(g, p, byte) ==
    IF byte = 8 THEN
        Res([g EXCEPT !.cursor_col = IF @ > 0 THEN @ - 1 ELSE @,
                      !.pending_wrap = FALSE], p, "none")
    ELSE IF byte = 9 THEN
        LET next_tab == ((g.cursor_col \div 8) + 1) * 8
        IN Res([g EXCEPT !.cursor_col = Min(next_tab, g.cols - 1),
                         !.pending_wrap = FALSE], p, "none")
    ELSE IF byte \in {10, 11, 12} THEN Res(newline(g), p, "none")
    ELSE IF byte = 13 THEN Res(carriage_return(g), p, "none")
    ELSE Res(g, p, "none")

\* parser.rs:97-113: params is the list of OSC fields.  OSC 0 and 2 assign
\* grid.title and nothing else.
osc_dispatch(g, p, params) ==
    IF Len(params) = 0 THEN Res(g, p, "none")
    ELSE IF params[1] \in {"0", "2"} /\ Len(params) > 1
         THEN Res(g, p, "none")
         ELSE Res(g, p, "none")

\* ps.first().copied().unwrap_or(d), ps.get(1).copied().unwrap_or(d)
first_or(ps, d) == IF Len(ps) >= 1 THEN ps[1] ELSE d
second_or(ps, d) == IF Len(ps) >= 2 THEN ps[2] ELSE d
\* ps.first().copied().unwrap_or(1).max(1) as usize
count_param(ps) == Max(first_or(ps, 1), 1)

\* parser.rs:186-211 (ED)
erase_in_display(g, ps) ==
    LET n == first_or(ps, 0)
        cr == g.cursor_row
        cc == g.cursor_col
    IN IF n = 0 THEN clear_lines(clear_line_range(g, cr, cc, g.cols), cr + 1, g.rows)
       ELSE IF n = 1 THEN clear_line_range(clear_lines(g, 0, cr), cr, 0, cc + 1)
       ELSE IF n \in {2, 3} THEN clear_lines(g, 0, g.rows)
       ELSE g

\* parser.rs:213-222 (EL)
erase_in_line(g, ps) ==
    LET n == first_or(ps, 0)
        cr == g.cursor_row
        cc == g.cursor_col
    IN IF n = 0 THEN clear_line_range(g, cr, cc, g.cols)
       ELSE IF n = 1 THEN clear_line_range(g, cr, 0, cc + 1)
       ELSE IF n = 2 THEN clear_line(g, cr)
       ELSE g

\* parser.rs:234-247 (DCH).  i ascends and reads row[i + shift], not yet written.
delete_chars(g, ps) ==
    LET n == count_param(ps)
        cr == g.cursor_row
        cc == g.cursor_col
        end == g.cols
        shift == Min(n, end - cc)
    IN IF cr < g.rows /\ cc <= end
       THEN [g EXCEPT !.cells[cr] = [i \in 0..(g.cols - 1) |->
                 IF i >= cc /\ i < end - shift THEN g.cells[cr][i + shift]
                 ELSE IF i >= end - shift /\ i < end THEN DefaultCell
                 ELSE g.cells[cr][i]]]
       ELSE g
delete_chars_fault(g) == IndexFault(g.cursor_row < g.rows /\ g.cursor_col <= g.cols)

\* parser.rs:249-255 (ECH)
erase_chars(g, ps) ==
    LET n == count_param(ps)
        cr == g.cursor_row
        cc == g.cursor_col
        end == Min(cc + n, g.cols)
    IN clear_line_range(g, cr, cc, end)

\* parser.rs:257-272 (ICH).  i descends and reads row[i - shift], not yet written.
insert_chars(g, ps) ==
    LET n == count_param(ps)
        cr == g.cursor_row
        cc == g.cursor_col
        cols == g.cols
        shift == Min(n, cols - cc)
    IN IF cr < g.rows /\ cc <= cols
       THEN [g EXCEPT !.cells[cr] = [i \in 0..(cols - 1) |->
                 IF i >= cc /\ i < Min(cc + shift, cols) THEN DefaultCell
                 ELSE IF i >= cc + shift /\ i < cols THEN g.cells[cr][i - shift]
                 ELSE g.cells[cr][i]],
                      !.generation = @ + 1]
       ELSE g
insert_chars_fault(g) == IndexFault(g.cursor_row < g.rows /\ g.cursor_col <= g.cols)

\* parser.rs:304-311: one iteration of the REP loop
RECURSIVE rep_loop(_, _, _, _)
rep_loop(g, cols, ch, k) ==
    IF k = 0 THEN g
    ELSE rep_loop(IF g.cursor_col < cols
                  THEN advance_cursor(set_cell(g, g.cursor_col, g.cursor_row, ch))
                  ELSE g,
                  cols, ch, k - 1)

\* parser.rs:295-313 (REP).  After at most cols iterations the cursor rests on
\* the last column with pending_wrap set, and every further iteration rewrites
\* that cell with the same character: it changes generation only.
repeat_char(g, ps) ==
    LET n == count_param(ps)
        ch == IF g.cursor_col > 0 /\ InCells(g, g.cursor_row, g.cursor_col - 1)
              THEN g.cells[g.cursor_row][g.cursor_col - 1].ch ELSE " "
        k == Min(n, g.cols)
        g1 == rep_loop(g, g.cols, ch, k)
    IN IF ch # NUL
       THEN IF n > k /\ InCells(g1, g1.cursor_row, g1.cursor_col)
            THEN [g1 EXCEPT !.generation = @ + (n - k)] ELSE g1
       ELSE g
repeat_char_fault(g) ==
    IndexFault(g.cursor_col > 0 => InCells(g, g.cursor_row, g.cursor_col - 1))

\* parser.rs:325-333 (DECSTBM).  `bottom - 1` is an unsigned subtraction: with
\* bottom = 0 it panics where overflow checks are compiled in (scroll_top is
\* already assigned then) and wraps to usize::MAX where they are not.
\* checked says which of the two the build does.
set_scroll_region(g, p, ps, checked) ==
    LET rows == g.rows
        top == Max(first_or(ps, 1), 1)
        bottom == second_or(ps, rows % 65536)
        g1 == [g EXCEPT !.scroll_top = Min(top - 1, rows - 1)]
        bottom_m1 == IF bottom >= 1 THEN bottom - 1 ELSE UsizeMax
    IN IF bottom = 0 /\ checked THEN Res(g1, p, "panic")
       ELSE Res([g1 EXCEPT !.scroll_bottom = Min(bottom_m1, rows - 1),
                           !.cursor_row = IF p.origin_mode THEN g1.scroll_top ELSE 0,
                           !.cursor_col = 0,
                           !.pending_wrap = FALSE],
                p, IF bottom = 0 THEN "wrapped" ELSE "none")

\* parser.rs:343-349, 411-417: restore the saved cursor, clamped
restore_cursor(g, p) ==
    IF p.saved_cursor # None
    THEN [g EXCEPT !.cursor_row = Min(p.saved_cursor[1], g.rows - 1),
                   !.cursor_col = Min(p.saved_cursor[2], g.cols - 1),
                   !.pending_wrap = FALSE]
    ELSE g

\* parser.rs:357-366 (CSI ?1049 h)
enter_alt_screen(g) ==
    [clear_lines(g, 0, g.rows) EXCEPT !.cursor_row = 0, !.cursor_col = 0,
                                      !.scroll_top = 0,
                                      !.scroll_bottom = SatSub(g.rows, 1),
                                      !.pending_wrap = FALSE]

\* parser.rs:378-391 (CSI ?1049 l)
leave_alt_screen(g, p) ==
    LET g1 == clear_lines(g, 0, g.rows)
        g2 == IF p.saved_cursor # None
              THEN [g1 EXCEPT !.cursor_row = Min(p.saved_cursor[1], g.rows - 1),
                              !.cursor_col = Min(p.saved_cursor[2], g.cols - 1)]
              ELSE [g1 EXCEPT !.cursor_row = 0, !.cursor_col = 0]
    IN [g2 EXCEPT !.scroll_top = 0, !.scroll_bottom = SatSub(g.rows, 1),
                  !.pending_wrap = FALSE]

\* parser.rs:351-371: for p in &ps, DEC private mode set.  Modes 25 and 2004
\* assign cursor_visible and bracketed_paste and nothing else.
RECURSIVE dec_set(_, _, _, _)
dec_set(g, p, ps, i) ==
    IF i > Len(ps) THEN Res(g, p, "none")
    ELSE LET m == ps[i]
         IN IF m = 7 THEN dec_set(g, [p EXCEPT !.auto_wrap = TRUE], ps, i + 1)
            ELSE IF m = 25 THEN dec_set(g, p, ps, i + 1)
            ELSE IF m = 1049 THEN
                dec_set(enter_alt_screen(g),
                        [p EXCEPT !.saved_cursor = <<g.cursor_row, g.cursor_col>>],
                        ps, i + 1)
            ELSE IF m = 2004 THEN dec_set(g, p, ps, i + 1)
            ELSE dec_set(g, p, ps, i + 1)

\* parser.rs:372-395: DEC private mode reset
RECURSIVE dec_reset(_, _, _, _)
dec_reset(g, p, ps, i) ==
    IF i > Len(ps) THEN Res(g, p, "none")
    ELSE LET m == ps[i]
         IN IF m = 7 THEN dec_reset(g, [p EXCEPT !.auto_wrap = FALSE], ps, i + 1)
            ELSE IF m = 25 THEN dec_reset(g, p, ps, i + 1)
            ELSE IF m = 2004 THEN dec_reset(g, p, ps, i + 1)
            ELSE IF m = 1049 THEN dec_reset(leave_alt_screen(g, p), p, ps, i + 1)
            ELSE dec_reset(g, p, ps, i + 1)

\* intermediates.first() when there is no intermediate byte
NoInter == "none"

\* parser.rs:115-398.  inter is intermediates.first(): NoInter, "?" or another byte.
csi_dispatch(g, p, ps, inter, ignore, action, checked) ==
    LET rows == g.rows
        cols == g.cols
        n == count_param(ps)
        ok(g2) == Res(g2, p, "none")
    IN
    IF ignore THEN ok(g)
    ELSE IF inter = NoInter THEN
      CASE action = "A" ->
             ok([g EXCEPT !.cursor_row = SatSub(@, n), !.pending_wrap = FALSE])
        [] action \in {"B", "e"} ->
             ok([g EXCEPT !.cursor_row = Min(@ + n, rows - 1), !.pending_wrap = FALSE])
        [] action \in {"C", "a"} ->
             ok([g EXCEPT !.cursor_col = Min(@ + n, cols - 1), !.pending_wrap = FALSE])
        [] action = "D" ->
             ok([g EXCEPT !.cursor_col = SatSub(@, n), !.pending_wrap = FALSE])
        [] action = "E" ->
             ok([g EXCEPT !.cursor_row = Min(@ + n, rows - 1), !.cursor_col = 0,
                          !.pending_wrap = FALSE])
        [] action = "F" ->
             ok([g EXCEPT !.cursor_row = SatSub(@, n), !.cursor_col = 0,
                          !.pending_wrap = FALSE])
        [] action \in {"G", "GRAVE"} ->   \* 'G' and the grave accent (HPA)
             ok([g EXCEPT !.cursor_col = Min(n - 1, cols - 1), !.pending_wrap = FALSE])
        [] action \in {"H", "f"} ->
             LET row == Max(first_or(ps, 1), 1)
                 col == Max(second_or(ps, 1), 1)
             IN ok([g EXCEPT !.cursor_row = Min(row - 1, rows - 1),
                             !.cursor_col = Min(col - 1, cols - 1),
                             !.pending_wrap = FALSE])
        [] action = "J" -> ok(erase_in_display(g, ps))
        [] action = "K" -> ok(erase_in_line(g, ps))
        [] action = "L" -> ok(scroll_down_region(g, n))
        [] action = "M" -> ok(scroll_up_region(g, n))
        [] action = "P" -> Res(delete_chars(g, ps), p, delete_chars_fault(g))
        [] action = "X" -> ok(erase_chars(g, ps))
        [] action = "@" -> Res(insert_chars(g, ps), p, insert_chars_fault(g))
        [] action = "d" ->
             ok([g EXCEPT !.cursor_row = Min(n - 1, rows - 1), !.pending_wrap = FALSE])
        [] action = "b" -> Res(repeat_char(g, ps), p, repeat_char_fault(g))
        [] action = "S" -> ok(scroll_up_region(g, n))
        [] action = "T" -> ok(scroll_down_region(g, n))
        [] action = "r" -> set_scroll_region(g, p, ps, checked)
        [] action = "m" -> ok([g EXCEPT !.current_attrs = apply_sgr(@, ps)])
        [] action = "s" ->
             Res(g, [p EXCEPT !.saved_cursor = <<g.cursor_row, g.cursor_col>>], "none")
        [] action = "u" -> ok(restore_cursor(g, p))
        [] OTHER -> ok(g)
    ELSE IF inter = "?" /\ action = "h" THEN dec_set(g, p, ps, 1)
    ELSE IF inter = "?" /\ action = "l" THEN dec_reset(g, p, ps, 1)
    ELSE ok(g)

\* parser.rs:400-441
esc_dispatch(g, p, inter, ignore, byte) ==
    IF ignore \/ inter # NoInter THEN Res(g, p, "none")
    ELSE IF byte = "7" THEN
        Res(g, [p EXCEPT !.saved_cursor = <<g.cursor_row, g.cursor_col>>], "none")
    ELSE IF byte = "8" THEN Res(restore_cursor(g, p), p, "none")
    ELSE IF byte = "D" THEN Res(newline(g), p, "none")
    ELSE IF byte = "E" THEN Res(newline([g EXCEPT !.cursor_col = 0]), p, "none")
    ELSE IF byte = "M" THEN
        Res(IF g.cursor_row = g.scroll_top THEN scroll_down_region(g, 1)
            ELSE IF g.cursor_row > 0 THEN [g EXCEPT !.cursor_row = @ - 1]
            ELSE g,
            p, "none")
    ELSE Res(g, p, "none")

----------------------------------------------------------------------------
(* Layout (pane/layout.rs) *)

\* Rect, in whole logical pixels
Rect(x, y, width, height) == [x |-> x, y |-> y, width |-> width, height |-> height]

Leaf(id) == [kind |-> "Leaf", id |-> id]
HSplit(left, right, ratio) ==
    [kind |-> "HSplit", left |-> left, right |-> right, ratio |-> ratio]
VSplit(top, bottom, ratio) ==
    [kind |-> "VSplit", top |-> top, bottom |-> bottom, ratio |-> ratio]

\* Option<T>: None is the empty tuple, Some(x) the one-element tuple
Some(x) == <<x>>

\* A split ratio is kept in hundredths: 50 is the 0.5 of layout.rs:87.
Scaled(len, ratio) == (len * ratio) \div 100

\* compute_rects: the leaves left to right, top to bottom, as <<id, rect>>
RECURSIVE compute_rects(_, _)
compute_rects(l, rect) ==
    IF l.kind = "Leaf" THEN << <<l.id, rect>> >>
    ELSE IF l.kind = "HSplit" THEN
      LET left_w == Scaled(rect.width, l.ratio)
          right_w == rect.width - left_w
          left_rect == Rect(rect.x, rect.y, left_w, rect.height)
          right_rect == Rect(rect.x + left_w, rect.y, right_w, rect.height)
      IN compute_rects(l.left, left_rect) \o compute_rects(l.right, right_rect)
    ELSE
      LET top_h == Scaled(rect.height, l.ratio)
          bottom_h == rect.height - top_h
          top_rect == Rect(rect.x, rect.y, rect.width, top_h)
          bottom_rect == Rect(rect.x, rect.y + top_h, rect.width, bottom_h)
      IN compute_rects(l.top, top_rect) \o compute_rects(l.bottom, bottom_rect)

RECURSIVE pane_ids(_)
pane_ids(l) ==
    IF l.kind = "Leaf" THEN <<l.id>>
    ELSE IF l.kind = "HSplit" THEN pane_ids(l.left) \o pane_ids(l.right)
    ELSE pane_ids(l.top) \o pane_ids(l.bottom)

RECURSIVE split_h(_, _, _)
split_h(l, target_id, new_id) ==
    IF l.kind = "Leaf" THEN
      IF l.id = target_id THEN HSplit(Leaf(target_id), Leaf(new_id), 50) ELSE l
    ELSE IF l.kind = "HSplit" THEN
      HSplit(split_h(l.left, target_id, new_id), split_h(l.right, target_id, new_id), l.ratio)
    ELSE
      VSplit(split_h(l.top, target_id, new_id), split_h(l.bottom, target_id, new_id), l.ratio)

RECURSIVE split_v(_, _, _)
split_v(l, target_id, new_id) ==
    IF l.kind = "Leaf" THEN
      IF l.id = target_id THEN VSplit(Leaf(target_id), Leaf(new_id), 50) ELSE l
    ELSE IF l.kind = "HSplit" THEN
      HSplit(split_v(l.left, target_id, new_id), split_v(l.right, target_id, new_id), l.ratio)
    ELSE
      VSplit(split_v(l.top, target_id, new_id), split_v(l.bottom, target_id, new_id), l.ratio)

\* The four arms of the match on the two halves (layout.rs:165-174, 177-186)
Rejoin(a, b, both) ==
    IF a = None /\ b = None THEN None
    ELSE IF a = None THEN b
    ELSE IF b = None THEN a
    ELSE Some(both)

\* remove: None when this node itself goes
RECURSIVE remove(_, _)
remove(l, target_id) ==
    IF l.kind = "Leaf" THEN (IF l.id = target_id THEN None ELSE Some(l))
    ELSE IF l.kind = "HSplit" THEN
      LET a == remove(l.left, target_id)
          b == remove(l.right, target_id)
      IN Rejoin(a, b, IF a # None /\ b # None THEN HSplit(a[1], b[1], l.ratio) ELSE l)
    ELSE
      LET a == remove(l.top, target_id)
          b == remove(l.bottom, target_id)
      IN Rejoin(a, b, IF a # None /\ b # None THEN VSplit(a[1], b[1], l.ratio) ELSE l)

\* contains
RECURSIVE contains(_, _)
contains(l, target_id) ==
    IF l.kind = "Leaf" THEN l.id = target_id
    ELSE IF l.kind = "HSplit" THEN contains(l.left, target_id) \/ contains(l.right, target_id)
    ELSE contains(l.top, target_id) \/ contains(l.bottom, target_id)

\* The ends of clamp(0.1, 0.9), in hundredths like the ratios
RatioMin == 10
RatioMax == 90

\* A nudge that keeps whatever the sum gives
no_clamp(x, lo, hi) == x

\* f32::clamp
clamp(x, lo, hi) == IF x < lo THEN lo ELSE IF x > hi THEN hi ELSE x

\* nudge_ratio_for: the outermost split with the target below it takes the
\* delta of its own kind; the halves are visited only when neither holds the
\* target.
RECURSIVE nudge_ratio_for(_, _, _, _)
nudge_ratio_for(l, target_id, h_delta, v_delta) ==
    IF l.kind = "HSplit" THEN
      IF contains(l.left, target_id) \/ contains(l.right, target_id)
      THEN [l EXCEPT !.ratio = clamp(@ + h_delta, RatioMin, RatioMax)]
      ELSE HSplit(nudge_ratio_for(l.left, target_id, h_delta, v_delta),
                  nudge_ratio_for(l.right, target_id, h_delta, v_delta), l.ratio)
    ELSE IF l.kind = "VSplit" THEN
      IF contains(l.top, target_id) \/ contains(l.bottom, target_id)
      THEN [l EXCEPT !.ratio = clamp(@ + v_delta, RatioMin, RatioMax)]
      ELSE VSplit(nudge_ratio_for(l.top, target_id, h_delta, v_delta),
                  nudge_ratio_for(l.bottom, target_id, h_delta, v_delta), l.ratio)
    ELSE l

----------------------------------------------------------------------------
(* PaneTree (pane/mod.rs).  A pane is its id: its terminal is the grid      *)
(* modelled above, and nothing here reads it but is_pty_dead.               *)

\* PaneTree::new
PaneTreeNew == [panes |-> <<0>>, layout |-> Leaf(0), focused_id |-> 0, next_id |-> 1]

\* The content rect the window hands to compute_rects (app.rs:101-115)
ContentRect == Rect(0, 0, 64, 64)

SeqToSet(q) == {q[i] : i \in 1..Len(q)}

\* Vec::retain
Retain(q, id) == SelectSeq(q, LAMBDA x : x # id)

\* What a split returns: the Err of Pane::new through the ? of lines 67 and
\* 93, Ok(()) at the end otherwise
split_result(spawned) == IF spawned THEN "Ok" ELSE "Err"

\* split_horizontal with the layout split ahead of the spawn: a failed spawn
\* would leave a leaf without a pane.
split_horizontal_layout_first(t, spawned) ==
    LET t1 == [t EXCEPT !.next_id = @ + 1,
                        !.layout = split_h(t.layout, t.focused_id, t.next_id)]
    IN IF ~spawned THEN t1
       ELSE [t1 EXCEPT !.panes = Append(@, t.next_id), !.focused_id = t.next_id]

\* split_horizontal.  spawned is whether Pane::new returned Ok: on Err the
\* ? of line 67 returns with next_id already advanced.
split_horizontal(t, spawned) ==
    LET focused == t.focused_id
        new_id == t.next_id
        t1 == [t EXCEPT !.next_id = @ + 1]
    IN IF ~spawned THEN t1
       ELSE [t1 EXCEPT !.panes = Append(@, new_id),
                       !.layout = split_h(t.layout, focused, new_id),
                       !.focused_id = new_id]

\* split_vertical taking the number of panes as the new id, as if ids were
\* positions: an id freed by a close would be handed out again.
split_vertical_by_count(t, spawned) ==
    LET new_id == Len(t.panes)
        t1 == [t EXCEPT !.next_id = @ + 1]
    IN IF ~spawned THEN t1
       ELSE [t1 EXCEPT !.panes = Append(@, new_id),
                       !.layout = split_v(t.layout, t.focused_id, new_id),
                       !.focused_id = new_id]

split_vertical(t, spawned) ==
    LET focused == t.focused_id
        new_id == t.next_id
        t1 == [t EXCEPT !.next_id = @ + 1]
    IN IF ~spawned THEN t1
       ELSE [t1 EXCEPT !.panes = Append(@, new_id),
                       !.layout = split_v(t.layout, focused, new_id),
                       !.focused_id = new_id]

\* close_pane with the focus going to the first leaf of the layout that is
\* left, not to the first of the panes that are left
close_pane_first_leaf(t, id) ==
    LET panes == Retain(t.panes, id)
        removed == remove(t.layout, id)
        layout == IF removed = None THEN Leaf(0) ELSE removed[1]
    IN [t EXCEPT !.panes = panes,
                 !.layout = layout,
                 !.focused_id = IF t.focused_id = id /\ panes # <<>>
                                THEN Head(pane_ids(layout)) ELSE t.focused_id]

\* close_pane without the refocus of lines 114-118: the focus invariant
\* rests on it.
close_pane_keep_focus(t, id) ==
    LET removed == remove(t.layout, id)
    IN [t EXCEPT !.panes = Retain(t.panes, id),
                 !.layout = IF removed = None THEN Leaf(0) ELSE removed[1]]

close_pane(t, id) ==
    LET panes == Retain(t.panes, id)
        removed == remove(t.layout, id)
    IN [t EXCEPT !.panes = panes,
                 !.layout = IF removed = None THEN Leaf(0) ELSE removed[1],
                 !.focused_id = IF t.focused_id = id /\ panes # <<>>
                                THEN panes[1] ELSE t.focused_id]

close_focused(t) == close_pane(t, t.focused_id)

\* for id in dead { close_pane(id) } (app.rs:1247-1249)
RECURSIVE close_panes(_, _)
close_panes(t, ids) ==
    IF ids = <<>> THEN t ELSE close_panes(close_pane(t, Head(ids)), Tail(ids))

dead_pane_ids(t, exited) == SelectSeq(t.panes, LAMBDA id : id \in exited)

\* let delta = 0.05_f32, in hundredths
ResizeDelta == 5

\* resize_focused
resize_focused(t, dir) ==
    LET h_delta == IF dir = "Left" THEN 0 - ResizeDelta
                   ELSE IF dir = "Right" THEN ResizeDelta ELSE 0
        v_delta == IF dir = "Up" THEN 0 - ResizeDelta
                   ELSE IF dir = "Down" THEN ResizeDelta ELSE 0
    IN [t EXCEPT !.layout = nudge_ratio_for(t.layout, t.focused_id, h_delta, v_delta)]

\* iter().position(..).unwrap_or(0), 0-based
Position(ids, id) ==
    IF \E i \in 1..Len(ids) : ids[i] = id
    THEN (CHOOSE i \in 1..Len(ids) : ids[i] = id /\ \A j \in 1..(i - 1) : ids[j] # id) - 1
    ELSE 0

focus_next(t) ==
    LET ids == pane_ids(t.layout)
        pos == Position(ids, t.focused_id)
    IN IF ids = <<>> THEN t
       ELSE [t EXCEPT !.focused_id = ids[((pos + 1) % Len(ids)) + 1]]

focus_prev(t) ==
    LET ids == pane_ids(t.layout)
        pos == Position(ids, t.focused_id)
    IN IF ids = <<>> THEN t
       ELSE [t EXCEPT !.focused_id = ids[((pos + Len(ids) - 1) % Len(ids)) + 1]]

\* The entry of layout_rects with this id, if any
FindRect(layout_rects, id) ==
    IF \E i \in 1..Len(layout_rects) : layout_rects[i][1] = id
    THEN Some(layout_rects[Position([i \in 1..Len(layout_rects) |-> layout_rects[i][1]], id) + 1][2])
    ELSE None

\* pane/mod.rs:163-168
Qualifies(rect, focused_rect, dir) ==
    CASE dir = "Left"  -> rect.x + rect.width <= focused_rect.x + 1
      [] dir = "Right" -> rect.x >= focused_rect.x + focused_rect.width - 1
      [] dir = "Up"    -> rect.y + rect.height <= focused_rect.y + 1
      [] dir = "Down"  -> rect.y >= focused_rect.y + focused_rect.height - 1

\* The squared distance of the two centres, times four: a centre is
\* x + width * 0.5, kept here as 2x + width.
Dist(rect, focused_rect) ==
    LET dx == (2 * rect.x + rect.width) - (2 * focused_rect.x + focused_rect.width)
        dy == (2 * rect.y + rect.height) - (2 * focused_rect.y + focused_rect.height)
    IN dx * dx + dy * dy

\* The scan keeping the first pane that qualifies, however far it is: the
\* distance is never compared.
RECURSIVE nearest_first_qualifying(_, _, _, _, _, _)
nearest_first_qualifying(layout_rects, i, focused_id, focused_rect, dir, best) ==
    IF i > Len(layout_rects) THEN best
    ELSE
      LET id == layout_rects[i][1]
          rect == layout_rects[i][2]
      IN IF id = focused_id \/ ~Qualifies(rect, focused_rect, dir)
         THEN nearest_first_qualifying(layout_rects, i + 1, focused_id, focused_rect, dir, best)
         ELSE nearest_first_qualifying(layout_rects, i + 1, focused_id, focused_rect, dir,
                      IF best = None THEN <<id, 0>> ELSE best)

\* pane/mod.rs:157-179: best is None or <<id, dist>>; a None best stands for
\* best_dist = f32::MAX, which every distance is below.
RECURSIVE nearest(_, _, _, _, _, _)
nearest(layout_rects, i, focused_id, focused_rect, dir, best) ==
    IF i > Len(layout_rects) THEN best
    ELSE
      LET id == layout_rects[i][1]
          rect == layout_rects[i][2]
          dist == Dist(rect, focused_rect)
      IN IF id = focused_id \/ ~Qualifies(rect, focused_rect, dir)
         THEN nearest(layout_rects, i + 1, focused_id, focused_rect, dir, best)
         ELSE nearest(layout_rects, i + 1, focused_id, focused_rect, dir,
                      IF best = None \/ dist < best[2] THEN <<id, dist>> ELSE best)

focus_direction(t, layout_rects, dir) ==
    LET found == FindRect(layout_rects, t.focused_id)
    IN IF found = None THEN t
       ELSE LET best == nearest(layout_rects, 1, t.focused_id, found[1], dir, None)
            IN IF best = None THEN t ELSE [t EXCEPT !.focused_id = best[1]]

\* app.rs:1147-1156: the first rect that holds the cursor takes the focus
InRect(cx, cy, r) ==
    cx >= r.x /\ cx < r.x + r.width /\ cy >= r.y /\ cy < r.y + r.height

click_to_focus(t, layout_rects, cx, cy) ==
    LET hits == {i \in 1..Len(layout_rects) : InRect(cx, cy, layout_rects[i][2])}
    IN IF hits = {} THEN t
       ELSE [t EXCEPT !.focused_id =
                layout_rects[CHOOSE i \in hits : \A j \in hits : i <= j][1]]

\* The one window of the model
MainWindow == "main"

\* No frame has run yet
NoFrame == [dead |-> {}, drained |-> {}, rendered |-> {}]

----------------------------------------------------------------------------
(* Config and its hot reload (config/mod.rs, app.rs, renderer/mod.rs) *)

\* The configurations of the model: what DEFAULT_CONFIG parses to, and one
\* that a user wrote
DefaultConfig == "default"
Configs == {DefaultConfig, "custom"}

\* What config.toml may hold: the text of a configuration, or text that
\* toml::from_str rejects
Unparsable == "unparsable"
FileContents == Configs \cup {Unparsable}

\* toml::from_str(&contents)
from_str(contents) == IF contents \in Configs THEN Some(contents) ELSE None

\* Config::load_or_default for a file that exists and can be read
load_or_default(contents) ==
    LET parsed == from_str(contents)
    IN IF parsed # None THEN parsed[1] ELSE DefaultConfig

\* Renderer::apply_config: self.app_config = new_config
apply_config(old_config, new_config) == new_config

\* bounded::<()>(1)
ConfigRxCap == 1

\* main.rs:17 loads the config that App::new and the renderer start with;
\* a first run finds no file and writes DEFAULT_CONFIG (config/mod.rs:228-233)
ConfigInit ==
    /\ config_file = DefaultConfig
    /\ config = load_or_default(config_file)
    /\ app_config = config
    /\ config_rx = 0

----------------------------------------------------------------------------
(* PtyHandle and Terminal::drain_pty_output (pty.rs, terminal/mod.rs) *)

\* The PTYs of the model, in the order of PaneTree::panes
Ptys == <<"p0", "p1">>
PtySet == SeqToSet(Ptys)

\* What one read() may return: buf[..n] with n >= 1
ChunkData == {<<"a">>, <<"b">>, <<"a", "b">>}

\* Flatten a Vec<Vec<u8>> in order
RECURSIVE Concat(_)
Concat(chunks) ==
    IF chunks = <<>> THEN <<>> ELSE Head(chunks) \o Concat(Tail(chunks))

\* for chunk in chunks { parser.advance(.., &chunk) }, last chunk first: the
\* order of the bytes a parser sees rests on the order of this loop.
feed_chunks_reversed(fed, chunks) ==
    fed \o Concat([i \in 1..Len(chunks) |-> chunks[Len(chunks) + 1 - i]])

\* for chunk in chunks { parser.advance(.., &chunk) } (terminal/mod.rs:35-37):
\* the parser is fed the chunks in Vec order
feed_chunks(fed, chunks) == fed \o Concat(chunks)

ReaderNew == [pc |-> "read", data |-> <<>>]
UiIdle == [pc |-> "idle", todo |-> <<>>, chunks |-> <<>>]

PtyStart ==
    /\ pty_read = [p \in PtySet |-> <<>>]
    /\ reader = [p \in PtySet |-> ReaderNew]
    /\ channel = [p \in PtySet |-> <<>>]
    /\ receiver_alive = [p \in PtySet |-> TRUE]
    /\ ui = UiIdle
    /\ consumed = [p \in PtySet |-> <<>>]

IsPrefix(a, b) == Len(a) <= Len(b) /\ a = SubSeq(b, 1, Len(a))

----------------------------------------------------------------------------
(* The grid under a stream of parser callbacks and resizes *)

\* vte delivers each parameter as a u16.
ParamVals == {0, 1, 2, 65535}
Params1 == {<<>>} \cup {<<v>> : v \in ParamVals}
Params2 == Params1 \cup {<<v, w>> : v \in ParamVals, w \in ParamVals}
SgrParams == {<<>>, <<0>>, <<7>>}
DecModes == {<<7>>, <<25>>, <<2004>>, <<1049>>, <<7, 1049>>}
\* "z" stands for every final byte csi_dispatch does not handle; "G" and "H"
\* stand for the second byte of their match arms too.
CsiFinals == {"A", "B", "C", "D", "E", "F", "G", "H", "J", "K", "L",
              "M", "P", "X", "@", "d", "a", "e", "b", "S", "T", "r", "m", "s", "u",
              "z"}
CsiParams(action) ==
    IF action \in {"H", "r"} THEN Params2
    ELSE IF action = "m" THEN SgrParams
    ELSE Params1
\* 0 stands for every byte execute() ignores, 10 for LF, VT and FF.
ExecBytes == {7, 8, 9, 10, 13, 0}
OscParams == {<<>>, <<"0", "t">>, <<"1", "t">>}
\* "c" stands for every final byte esc_dispatch does not handle.
EscBytes == {"7", "8", "D", "E", "M", "c"}
\* <<intermediate, ignore, byte>>
EscInputs == {<<NoInter, FALSE, b>> : b \in EscBytes}
                 \cup {<<"#", FALSE, "8">>, <<NoInter, TRUE, "D">>}
\* <<intermediate, params>>
PrivateInputs == {<<"?", ps>> : ps \in DecModes} \cup {<<">", <<1049>>>>}
\* CSI Pt ; 0 r is the one sequence whose arithmetic depends on the build
Underflows(action, ps) == action = "r" /\ Len(ps) > 1 /\ ps[2] = 0

\* The UI thread runs callbacks until it panics.
Running == fault # "panic" /\ grid.generation < MaxGen

----------------------------------------------------------------------------
(* Springs (animation/spring.rs, animation/scroll.rs).  The f32 values are  *)
(* kept in fixed point: positions in 1/Fix pixel, velocities in 1/Fix pixel *)
(* per second, an angular frequency in 1/OmegaUnit rad/s, a time step as    *)
(* the fraction num/den of a second.  Products are rounded toward zero.     *)

Fix == 10000
OmegaUnit == 100

Abs(a) == IF a < 0 THEN 0 - a ELSE a

\* a * b / c for b >= 0 and c > 0, without forming a * b
MulDiv(a, b, c) ==
    LET m == Abs(a)
        q == (m \div c) * b + ((m % c) * b) \div c
    IN IF a < 0 THEN 0 - q ELSE q

\* The terms of the series of e^(-y) from the k-th on, for 0 <= y <= Fix/2
RECURSIVE ExpSeries(_, _, _)
ExpSeries(y, k, term) ==
    IF term = 0 THEN 0
    ELSE term - ExpSeries(y, k + 1, (term * y) \div (k * Fix))

\* f32::exp of -y/Fix, times Fix: above 1/2 the argument is halved and the
\* result squared
RECURSIVE ExpNeg(_)
ExpNeg(y) ==
    IF y > Fix \div 2
    THEN LET h == ExpNeg(y \div 2) IN (h * h) \div Fix
    ELSE ExpSeries(y, 1, Fix)

\* The time steps of a frame: 1/60 s, and the 0.05 s that app.rs:1217 caps
\* a late frame at
Frame60 == [num |-> 1, den |-> 60]
FrameCap == [num |-> 1, den |-> 20]
Steps == {Frame60, FrameCap}

\* CriticallyDampedSpring::new
SpringNew(omega) == [position |-> 0, velocity |-> 0, target |-> 0, omega |-> omega]

\* A tick that integrates the velocity and never stores the new position
tick_velocity_only(s, dt) ==
    LET x == s.position - s.target
        v == s.velocity
        w == s.omega
        exp == ExpNeg(MulDiv(w * dt.num, Fix, OmegaUnit * dt.den))
        c2 == v + MulDiv(x, w, OmegaUnit)
    IN [s EXCEPT
          !.velocity = MulDiv(v - MulDiv(MulDiv(c2, w, OmegaUnit), dt.num, dt.den), exp, Fix)]

\* CriticallyDampedSpring::tick
tick(s, dt) ==
    LET x == s.position - s.target
        v == s.velocity
        w == s.omega
        exp == ExpNeg(MulDiv(w * dt.num, Fix, OmegaUnit * dt.den))
        c1 == x
        c2 == v + MulDiv(x, w, OmegaUnit)
    IN [s EXCEPT
          !.position = s.target + MulDiv(c1 + MulDiv(c2, dt.num, dt.den), exp, Fix),
          !.velocity = MulDiv(v - MulDiv(MulDiv(c2, w, OmegaUnit), dt.num, dt.den), exp, Fix)]

\* CriticallyDampedSpring::snap_to_target
snap_to_target(s) == [s EXCEPT !.position = s.target, !.velocity = 0]

\* The soft overscroll of scroll.rs:23, 50.0 pixels
Overscroll == 50 * Fix

\* ScrollSpring::new
ScrollSpringNew(omega) == [spring |-> SpringNew(omega), max_offset |-> 0]

\* ScrollSpring::tick
scroll_tick(ss, dt) ==
    LET s1 == [ss.spring EXCEPT !.target = Min(Max(@, 0), ss.max_offset)]
        s2 == tick(s1, dt)
    IN [ss EXCEPT !.spring =
          [s2 EXCEPT !.position = Min(Max(@, 0), ss.max_offset + Overscroll)]]

\* scroll_by adding to the target without clamping the sum
scroll_by_unclamped(ss, delta_pixels) ==
    [ss EXCEPT !.spring.target = @ + delta_pixels]

\* ScrollSpring::scroll_by
scroll_by(ss, delta_pixels) ==
    [ss EXCEPT !.spring.target = Min(Max(@ + delta_pixels, 0), ss.max_offset)]

\* ScrollSpring::set_target_pixels
set_target_pixels(ss, offset) ==
    [ss EXCEPT !.spring.target = Min(Max(offset, 0), ss.max_offset)]

\* ScrollSpring::pixel_offset
pixel_offset(ss) == ss.spring.position

\* snap_to_bottom that sets the target and leaves the spring to travel there
snap_to_bottom_target_only(ss) == [ss EXCEPT !.spring.target = 0]

\* ScrollSpring::snap_to_bottom
snap_to_bottom(ss) ==
    [ss EXCEPT !.spring = snap_to_target([ss.spring EXCEPT !.target = 0])]

----------------------------------------------------------------------------
(* The renderer's per-pane animation state (renderer/mod.rs) and the        *)
(* selection of the window (app.rs).  A cursor animator is its key only.    *)

\* Renderer::cell_w and cell_h in pixels: 16 stands for font_size_px *
\* line_height, 8 for the advance of the font
CellW == 8
CellH == 16

\* animation.scroll_spring_frequency: 15.0 by default (config/mod.rs:159),
\* and what the user's file says otherwise
scroll_spring_frequency(cfg) == IF cfg = DefaultConfig THEN 1500 ELSE 1000

\* The part of the Renderer that the pane state lives in
RendererOf(springs, animators, cfg) ==
    [scroll_springs |-> springs, cursor_animators |-> animators, app_config |-> cfg]

\* Renderer::ensure_pane_state: entry().or_insert_with() on both maps
ensure_pane_state(r, pane_id) ==
    [r EXCEPT
       !.cursor_animators = @ \cup {pane_id},
       !.scroll_springs =
          IF pane_id \in DOMAIN @ THEN @
          ELSE [id \in DOMAIN @ \cup {pane_id} |->
                  IF id = pane_id
                  THEN ScrollSpringNew(scroll_spring_frequency(r.app_config))
                  ELSE @[id]]]

RECURSIVE ensure_all(_, _, _)
ensure_all(r, ids, i) ==
    IF i > Len(ids) THEN r ELSE ensure_all(ensure_pane_state(r, ids[i]), ids, i + 1)

\* Renderer::tick_animations
tick_animations(r, dt) ==
    [r EXCEPT !.scroll_springs = [id \in DOMAIN @ |-> scroll_tick(@[id], dt)]]

\* Renderer::render, as far as the pane state goes (renderer/mod.rs:292-318):
\* every pane of the layout gets its state, and those found in panes get
\* max_offset from the scrollback of their grid
render(r, t, g) ==
    LET ids == pane_ids(t.layout)
        r1 == ensure_all(r, ids, 1)
    IN [r1 EXCEPT !.scroll_springs =
          [id \in DOMAIN @ |->
             IF id \in SeqToSet(ids) \cap SeqToSet(t.panes)
             THEN [@[id] EXCEPT !.max_offset = Len(g.scrollback) * CellH * Fix]
             ELSE @[id]]]

\* WindowState::pixel_to_cell: the (abs_row, col) under a pixel, if any
pixel_to_cell(t, g, springs, px, py, pane_rect, pane_id) ==
    LET scroll_offset ==
          IF pane_id \in DOMAIN springs THEN pixel_offset(springs[pane_id]) ELSE 0
        scrollback_len == Len(g.scrollback)
        row_idx == ((py - pane_rect.y) * Fix - scroll_offset) \div (CellH * Fix)
        abs_row_i == scrollback_len + row_idx
        col == (px - pane_rect.x) \div CellW
    IN IF pane_id \notin SeqToSet(t.panes) THEN None
       ELSE IF abs_row_i < 0 THEN None
       ELSE IF abs_row_i >= scrollback_len + g.rows THEN None
       ELSE Some(<<abs_row_i, Min(Max(col, 0), g.cols - 1)>>)

\* Selection { anchor: cell, head: cell }
Selection(anchor, head) == [anchor |-> anchor, head |-> head]

\* MouseInput Pressed Left, after the focus (app.rs:1158-1168)
start_selection(t, g, springs, sel, layout_rects, cx, cy) ==
    LET found == FindRect(layout_rects, t.focused_id)
    IN IF found = None THEN sel
       ELSE LET cell == pixel_to_cell(t, g, springs, cx, cy, found[1], t.focused_id)
            IN IF cell = None THEN None ELSE Some(Selection(cell[1], cell[1]))

\* WindowState::write_to_focused_pane, as far as the renderer goes
\* (app.rs:202-207)
write_to_focused_pane(r, t) ==
    LET r1 == ensure_pane_state(r, t.focused_id)
    IN [r1 EXCEPT !.scroll_springs[t.focused_id] = snap_to_bottom(@)]

\* The deltas of ScrollViewUp and ScrollViewDown (five rows) and of a wheel
\* line each way (20 pixels, input/mod.rs:244)
ScrollDeltas == {5 * CellH * Fix, 0 - 5 * CellH * Fix, 20 * Fix, 0 - 20 * Fix}

\* ensure_pane_state(focused) and scroll_by on the spring of the focused pane
\* (app.rs:972-993, 1199-1208)
scroll_focused(r, t, delta) ==
    LET r1 == ensure_pane_state(r, t.focused_id)
    IN [r1 EXCEPT !.scroll_springs[t.focused_id] = scroll_by(@, delta)]

\* Renderer::new (renderer/mod.rs:190-192) and WindowState { selection: None }
RenderInit ==
    /\ scroll_springs = <<>>
    /\ cursor_animators = {}
    /\ selection = None

\* No spring of its own is ticked in the scenarios that are not about one
SpringInit ==
    /\ spring = SpringNew(0)
    /\ ticks = 0

(* The input decoder (input/mod.rs).  A byte is its value; the string of a  *)
(* Key::Character is the code point of its one ASCII character.  An         *)
(* InputAction is a record of its variant, the bytes of a WriteBytes and    *)
(* the index of a SwitchTab.                                                *)

InputAction(variant) == [variant |-> variant, bytes |-> <<>>, n |-> 0]
WriteBytes(bytes) == [variant |-> "WriteBytes", bytes |-> bytes, n |-> 0]
SwitchTab(n) == [variant |-> "SwitchTab", bytes |-> <<>>, n |-> n]

Character(ch) == [kind |-> "Character", ch |-> ch, named |-> ""]
Named(named) == [kind |-> "Named", ch |-> 0, named |-> named]
\* Key::Dead, Key::Unidentified: the arm "_ => {}" of input/mod.rs:160
OtherKey == [kind |-> "Dead", ch |-> 0, named |-> ""]

\* str::to_lowercase and char::to_ascii_uppercase on one ASCII character
to_lowercase(ch) == IF ch \in 65..90 THEN ch + 32 ELSE ch
to_ascii_uppercase(ch) == IF ch \in 97..122 THEN ch - 32 ELSE ch

\* the control code without the + 1 of input/mod.rs:172
encode_key_character_from_zero(ch, ctrl, alt) ==
    LET c_upper == to_ascii_uppercase(ch)
    IN  IF ctrl /\ c_upper >= 65 /\ c_upper <= 95 THEN <<c_upper - 65>>
        ELSE IF alt THEN <<27, ch>>
        ELSE <<ch>>

encode_key_character(ch, ctrl, alt) ==
    LET c_upper == to_ascii_uppercase(ch)
    IN  IF ctrl /\ c_upper >= 65 /\ c_upper <= 95 THEN <<c_upper - 65 + 1>>
        ELSE IF alt THEN <<27, ch>>
        ELSE <<ch>>

\* ESC [ 1 ; 5 X with Ctrl, ESC [ X without
Arrow(ctrl, final) == IF ctrl THEN <<27, 91, 49, 59, 53, final>> ELSE <<27, 91, final>>

encode_named_key(named, modifiers) ==
    LET shift == modifiers.shift
        ctrl == modifiers.ctrl
        alt == modifiers.alt
    IN  CASE named = "Space" -> <<32>>
          [] named = "Enter" -> <<13>>
          [] named = "Tab" -> IF shift THEN <<27, 91, 90>> ELSE <<9>>
          [] named = "Backspace" -> <<127>>
          [] named = "Delete" -> <<27, 91, 51, 126>>
          [] named = "Escape" -> <<27>>
          [] named = "ArrowUp" -> Arrow(ctrl, 65)
          [] named = "ArrowDown" -> Arrow(ctrl, 66)
          [] named = "ArrowRight" ->
                IF ctrl THEN Arrow(ctrl, 67)
                ELSE IF alt THEN <<27, 98>>     \* ESC b
                ELSE Arrow(ctrl, 67)
          [] named = "ArrowLeft" ->
                IF ctrl THEN Arrow(ctrl, 68)
                ELSE IF alt THEN <<27, 102>>    \* ESC f
                ELSE Arrow(ctrl, 68)
          [] named = "Home" -> <<27, 91, 72>>
          [] named = "End" -> <<27, 91, 70>>
          [] named = "PageUp" -> <<27, 91, 53, 126>>
          [] named = "PageDown" -> <<27, 91, 54, 126>>
          [] named = "F1" -> <<27, 79, 80>>
          [] named = "F2" -> <<27, 79, 81>>
          [] named = "F3" -> <<27, 79, 82>>
          [] named = "F4" -> <<27, 79, 83>>
          [] named = "F5" -> <<27, 91, 49, 53, 126>>
          [] named = "F6" -> <<27, 91, 49, 55, 126>>
          [] named = "F7" -> <<27, 91, 49, 56, 126>>
          [] named = "F8" -> <<27, 91, 49, 57, 126>>
          [] named = "F9" -> <<27, 91, 50, 48, 126>>
          [] named = "F10" -> <<27, 91, 50, 49, 126>>
          [] named = "F11" -> <<27, 91, 50, 51, 126>>
          [] named = "F12" -> <<27, 91, 50, 52, 126>>
          [] OTHER -> <<>>

handle_key_event(key_event, modifiers) ==
    LET cmd == modifiers.cmd
        shift == modifiers.shift
        ctrl == modifiers.ctrl
        alt == modifiers.alt
        key == key_event.logical_key
        ch == key.ch
        lc == to_lowercase(ch)
        named == key.named
        arrows == {"ArrowLeft", "ArrowRight", "ArrowUp", "ArrowDown"}
    IN  IF key_event.state # "Pressed" THEN InputAction("None")
        ELSE IF key.kind = "Character" THEN
            IF cmd /\ ~shift /\ lc = 100 THEN InputAction("SplitHorizontal")
            ELSE IF cmd /\ shift /\ lc = 100 THEN InputAction("SplitVertical")
            ELSE IF cmd /\ ~shift /\ lc = 119 THEN InputAction("ClosePane")
            ELSE IF cmd /\ lc = 93 THEN InputAction("FocusNext")
            ELSE IF cmd /\ lc = 91 THEN InputAction("FocusPrev")
            ELSE IF cmd /\ lc = 44 THEN InputAction("OpenConfig")
            ELSE IF cmd /\ ~shift /\ lc = 116 THEN InputAction("NewTab")
            ELSE IF cmd /\ ~shift /\ lc = 110 THEN InputAction("NewWindow")
            ELSE IF cmd /\ shift /\ ~ctrl /\ lc = 108 THEN InputAction("ToggleTheme")
            ELSE IF cmd /\ ~shift /\ ~ctrl /\ lc = 99 THEN InputAction("CopySelection")
            ELSE IF cmd /\ ~shift /\ ~ctrl /\ lc = 118 THEN InputAction("Paste")
            ELSE IF cmd /\ ~shift /\ ~ctrl /\ ~alt /\ lc \in 49..57 THEN SwitchTab(lc - 48)
            ELSE IF ctrl /\ ~shift /\ ~cmd /\ ~alt /\ lc = 102 THEN InputAction("Maximize")
            ELSE IF cmd THEN InputAction("None")
            ELSE WriteBytes(encode_key_character(ch, ctrl, alt))
        ELSE IF key.kind = "Named" THEN
            IF shift /\ named \in arrows THEN
                InputAction(CASE named = "ArrowLeft" -> "FocusLeft"
                              [] named = "ArrowRight" -> "FocusRight"
                              [] named = "ArrowUp" -> "FocusUp"
                              [] named = "ArrowDown" -> "FocusDown")
            ELSE IF ctrl /\ ~shift /\ ~cmd /\ named \in {"End", "Home", "PageUp", "PageDown"} THEN
                InputAction(CASE named = "End" -> "TileRight"
                              [] named = "Home" -> "TileLeft"
                              [] named = "PageUp" -> "Maximize"
                              [] named = "PageDown" -> "RestoreWindow")
            ELSE IF ctrl /\ alt /\ ~cmd /\ ~shift /\ named \in arrows THEN
                InputAction(CASE named = "ArrowLeft" -> "ResizePaneLeft"
                              [] named = "ArrowRight" -> "ResizePaneRight"
                              [] named = "ArrowUp" -> "ResizePaneUp"
                              [] named = "ArrowDown" -> "ResizePaneDown")
            ELSE IF cmd /\ ~shift /\ ~ctrl /\ named \in {"ArrowUp", "ArrowDown"} THEN
                InputAction(IF named = "ArrowUp" THEN "ScrollViewUp" ELSE "ScrollViewDown")
            ELSE IF cmd THEN InputAction("None")
            ELSE WriteBytes(encode_named_key(named, modifiers))
        ELSE InputAction("None")

----------------------------------------------------------------------------
(* URL detection (terminal/url.rs).  A row is the sequence of the          *)
(* characters of its cells, a character a string of length one; column c   *)
(* of the source is element c + 1 of the sequence.                         *)

Letter == {"A", "B", "C", "D", "E", "F", "G", "H", "I", "J", "K", "L", "M",
           "N", "O", "P", "Q", "R", "S", "T", "U", "V", "W", "X", "Y", "Z",
           "a", "b", "c", "d", "e", "f", "g", "h", "i", "j", "k", "l", "m",
           "n", "o", "p", "q", "r", "s", "t", "u", "v", "w", "x", "y", "z"}
Digit == {"0", "1", "2", "3", "4", "5", "6", "7", "8", "9"}

is_url_char(ch) ==
    ch \in Letter \cup Digit \cup
           {"-", ".", "_", "~", ":", "/", "?", "#", "[", "]", "@", "!", "$", "&",
            "'", "(", ")", "*", "+", ",", ";", "=", "%"}

Https == <<"h", "t", "t", "p", "s", ":", "/", "/">>
Http == <<"h", "t", "t", "p", ":", "/", "/">>
Www == <<"w", "w", "w", ".">>

starts_with_at(row, col, pattern) ==
    IF col + Len(pattern) > Len(row) THEN FALSE
    ELSE \A j \in 0..(Len(pattern) - 1) : row[col + j + 1] = pattern[j + 1]

\* row[start..end] contains target
cells_contain(row, start, end, target) ==
    \E c \in start..(end - 1) : row[c + 1] = target

\* the characters the trailing strip of url.rs:38 removes
StrippedPunctuation == {".", ",", ";", ":", "!", "?", "'", "\""}

\* url.rs:31-33
RECURSIVE extend(_, _)
extend(row, end) ==
    IF end < Len(row) /\ is_url_char(row[end + 1]) THEN extend(row, end + 1) ELSE end

\* The strip loop that takes a closing parenthesis whether or not the URL
\* opens one
RECURSIVE strip_every_paren(_, _, _)
strip_every_paren(row, start, end) ==
    IF end > start /\ row[end] \in StrippedPunctuation \cup {")"}
    THEN strip_every_paren(row, start, end - 1)
    ELSE end

\* url.rs:36-49
RECURSIVE strip(_, _, _)
strip(row, start, end) ==
    IF end > start THEN
        LET ch == row[end]     \* row[end - 1] of the source
        IN  IF ch \in StrippedPunctuation THEN strip(row, start, end - 1)
            ELSE IF ch = ")" THEN
                IF cells_contain(row, start, end, "(") THEN end
                ELSE strip(row, start, end - 1)
            ELSE end
    ELSE end

\* row[start..end], and with 0-based positions inside a string
Slice(row, start, end) == SubSeq(row, start + 1, end)

RECURSIVE detect_from(_, _, _)
detect_from(row, i, results) ==
    IF i >= Len(row) THEN results
    ELSE
      LET ch == row[i + 1]
          is_https == ch = "h" /\ starts_with_at(row, i, Https)
          is_http == ch = "h" /\ starts_with_at(row, i, Http)
          is_www == ch = "w" /\ starts_with_at(row, i, Www)
          prefix_len == IF is_https THEN 8 ELSE IF is_http THEN 7 ELSE 4
          added_scheme == IF is_https \/ is_http THEN <<>> ELSE Https
          start == i
          end == strip(row, start, extend(row, start))
          url_text == Slice(row, start, end)
          after_scheme ==
              Slice(url_text,
                    IF starts_with_at(url_text, 0, Https) THEN 8
                    ELSE IF starts_with_at(url_text, 0, Http) THEN 7
                    ELSE 4,
                    Len(url_text))
      IN
      IF ~(is_https \/ is_http \/ is_www) THEN detect_from(row, i + 1, results)
      ELSE IF end <= start + prefix_len THEN
          detect_from(row, Max(end, start + 1), results)
      ELSE IF (\E k \in 1..Len(after_scheme) : after_scheme[k] = ".")
                /\ Len(after_scheme) > 1
      THEN detect_from(row, end, Append(results, <<start, end, added_scheme \o url_text>>))
      ELSE detect_from(row, end, results)

detect_urls(row) == detect_from(row, 0, <<>>)

----------------------------------------------------------------------------
\* No key has been decoded
InputInit ==
    /\ event = None
    /\ input_action = None

\* No row has been searched for URLs
UrlInit ==
    /\ url_row = <<>>
    /\ url_matches = None

\* The alternate screen has not been entered
HistInit == alt_cursor = None

\* Renderer::new (renderer/mod.rs:193-194): both caches empty
CacheInit ==
    /\ text_cache = None
    /\ scrollback_text_cache = None

\* No URL is hovered and none has been opened; the pointer is at the origin
MouseInit ==
    /\ cursor_pos = <<0, 0>>
    /\ mouse_button_down = FALSE
    /\ hovered_url = None
    /\ launched = None

\* Nobody holds the grid mutex
LockInit ==
    /\ lock_owner = None
    /\ lock_ops = [path |-> "none", ops |-> <<>>]
    /\ lock_stuck = FALSE

Apply(res) ==
    /\ grid' = [res.g EXCEPT !.removed = 0]
    /\ performer' = res.p
    /\ fault' = res.fault
    /\ evicted' = res.g.removed
    /\ UNCHANGED <<appVars, ptyVars, typed, renderVars, springVars, inputVars, urlVars, histVars, cacheVars, mouseVars, lockVars>>

GridInit ==
    /\ \E cols \in 1..MaxCols, rows \in 1..MaxRows : grid = GridNew(cols, rows)
    /\ performer = PerformerNew
    /\ fault = "none"
    /\ evicted = 0
    /\ pane_tree = PaneTreeNew
    /\ dead = {}
    /\ windows = {MainWindow}
    /\ visible = TRUE
    /\ pending_close = <<>>
    /\ frame = NoFrame
    /\ last_split = "none"
    /\ ConfigInit
    /\ typed = <<>>
    /\ PtyStart
    /\ RenderInit
    /\ SpringInit
    /\ InputInit
    /\ UrlInit
    /\ HistInit
    /\ CacheInit
    /\ MouseInit
    /\ LockInit

PrintChar ==
    \E c \in Chars : Running /\ Apply(print(grid, performer, c))

Execute ==
    \E byte \in ExecBytes : Running /\ Apply(execute(grid, performer, byte))

OscDispatch ==
    \E params \in OscParams : Running /\ Apply(osc_dispatch(grid, performer, params))

\* Overflow checks are compiled into a debug build and left out of a release
\* build: a subtraction that underflows does either, by the build.
CsiDispatch ==
    \E action \in CsiFinals : \E ps \in CsiParams(action) :
        \E checked \in (IF Underflows(action, ps) THEN BOOLEAN ELSE {FALSE}) :
            Running /\ Apply(csi_dispatch(grid, performer, ps, NoInter, FALSE, action, checked))

CsiPrivate ==
    \E action \in {"h", "l"} : \E in \in PrivateInputs :
        Running /\ Apply(csi_dispatch(grid, performer, in[2], in[1], FALSE, action, FALSE))

CsiIgnored ==
    \E action \in {"J", "r"} :
        Running /\ Apply(csi_dispatch(grid, performer, <<0>>, NoInter, TRUE, action, FALSE))

EscDispatch ==
    \E in \in EscInputs :
        Running /\ Apply(esc_dispatch(grid, performer, in[1], in[2], in[3]))

\* Terminal::resize (terminal/mod.rs:44-48), called by resize_panes with
\* cols.max(1), rows.max(1)
Resize ==
    \E cols \in 1..MaxCols, rows \in 1..MaxRows :
        Running /\ Apply(Res(resize(grid, cols, rows), performer, "none"))

GridNext ==
    \/ PrintChar
    \/ Execute
    \/ OscDispatch
    \/ CsiDispatch
    \/ CsiPrivate
    \/ CsiIgnored
    \/ EscDispatch
    \/ Resize

SpecGrid == GridInit /\ [][GridNext]_vars

----------------------------------------------------------------------------
(* Text typed into a fresh grid: print after print, nothing else *)

\* Characters one column wide
NarrowChars == {"a", "b", " "}

\* The six characters typed into the 4 x 4 grid of the wrap scenario
ExampleText == <<"a", "b", "c", "d", "e", "f">>
ExampleGrid == GridNew(4, 4)

\* A fresh grid of any size up to the bounds, or the 4 x 4 grid
TypingInit ==
    /\ grid \in {GridNew(cols, rows) : cols \in 1..MaxTypeCols, rows \in 1..MaxTypeRows}
                   \cup {ExampleGrid}
    /\ performer = PerformerNew
    /\ fault = "none"
    /\ evicted = 0
    /\ pane_tree = PaneTreeNew
    /\ dead = {}
    /\ windows = {MainWindow}
    /\ visible = TRUE
    /\ pending_close = <<>>
    /\ frame = NoFrame
    /\ last_split = "none"
    /\ ConfigInit
    /\ typed = <<>>
    /\ PtyStart
    /\ RenderInit
    /\ SpringInit
    /\ InputInit
    /\ UrlInit
    /\ HistInit
    /\ CacheInit
    /\ MouseInit
    /\ LockInit

\* What may be typed next: the next character of the example into its grid,
\* any narrow character into the others, until the grid is full
NextChars ==
    IF grid.cols = ExampleGrid.cols /\ grid.rows = ExampleGrid.rows
    THEN {ExampleText[i] : i \in {Len(typed) + 1} \cap (1..Len(ExampleText))}
    ELSE IF Len(typed) < grid.rows * grid.cols THEN NarrowChars ELSE {}

\* One print callback (parser.rs:30-57)
TypeChar ==
    \E c \in NextChars :
        LET res == print(grid, performer, c)
        IN /\ fault = "none"
           /\ grid' = [res.g EXCEPT !.removed = 0]
           /\ performer' = res.p
           /\ fault' = res.fault
           /\ evicted' = res.g.removed
           /\ typed' = Append(typed, c)
           /\ UNCHANGED <<appVars, ptyVars, renderVars, springVars, inputVars, urlVars, histVars, cacheVars, mouseVars, lockVars>>

SpecTyping == TypingInit /\ [][TypeChar]_vars

----------------------------------------------------------------------------
(* Typed text with cursor movements and CSI Pn b in between *)

MaxRepGen == 4
RepCounts == 1..2

\* CSI Pn b (parser.rs:294-313)
RepeatBy(n) ==
    /\ typed # <<>>
    /\ fault = "none"
    /\ grid.generation < MaxRepGen
    /\ Apply(csi_dispatch(grid, performer, <<n>>, NoInter, FALSE, "b", FALSE))

RepeatChar == \E n \in RepCounts : RepeatBy(n)

\* CSI D: the cursor one column back (parser.rs:152-156)
CursorBack ==
    /\ fault = "none"
    /\ grid.cursor_col > 0
    /\ Apply(csi_dispatch(grid, performer, <<1>>, NoInter, FALSE, "D", FALSE))

TypeWithinGen == grid.generation < MaxRepGen /\ TypeChar

RepNext ==
    \/ TypeWithinGen
    \/ CursorBack
    \/ RepeatChar

SpecRep == TypingInit /\ [][RepNext]_vars

----------------------------------------------------------------------------
(* The alternate screen, with cursor moves and cursor saves in between *)

\* A callback whose result is res, outside the alternate screen switches
AltApply(res, cursor) ==
    /\ Running
    /\ grid' = [res.g EXCEPT !.removed = 0]
    /\ performer' = res.p
    /\ fault' = res.fault
    /\ evicted' = res.g.removed
    /\ alt_cursor' = cursor
    /\ UNCHANGED <<appVars, ptyVars, typed, renderVars, springVars, inputVars, urlVars,
                 cacheVars, mouseVars, lockVars>>

\* CSI ?1049 h (parser.rs:357-366)
AltEnter ==
    AltApply(csi_dispatch(grid, performer, <<1049>>, "?", FALSE, "h", FALSE),
             Some(<<grid.cursor_row, grid.cursor_col>>))

\* CSI ?1049 l (parser.rs:378-391), after a CSI ?1049 h
AltLeave ==
    /\ alt_cursor # None
    /\ AltApply(csi_dispatch(grid, performer, <<1049>>, "?", FALSE, "l", FALSE), None)

\* CSI row ; col H (parser.rs:178-184)
CursorPosition ==
    \E row \in 1..grid.rows, col \in 1..grid.cols :
        AltApply(csi_dispatch(grid, performer, <<row, col>>, NoInter, FALSE, "H", FALSE),
                 alt_cursor)

\* ESC 7 (parser.rs:405-408) and CSI s (parser.rs:339-341)
SaveCursor ==
    \E res \in {esc_dispatch(grid, performer, NoInter, FALSE, "7"),
                csi_dispatch(grid, performer, <<>>, NoInter, FALSE, "s", FALSE)} :
        AltApply(res, alt_cursor)

\* a character printed on either screen
AltPrint == AltApply(print(grid, performer, "a"), alt_cursor)

AltNext ==
    \/ AltEnter
    \/ AltLeave
    \/ CursorPosition
    \/ SaveCursor
    \/ AltPrint

SpecAlt == GridInit /\ [][AltNext]_vars

----------------------------------------------------------------------------
(* A grid with text on every row, under scrolls of its region *)

\* The character that fills row r at the start
RowMarks == <<"a", "b", "c", "d", "e", "f">>

MarkedRow(cols, r) == [c \in 0..(cols - 1) |-> NewCell(RowMarks[r + 1], DefaultAttrs)]

\* Text on every row, a scroll region of two rows or more, the cursor on any
\* row, the scrollback empty with little or much room
ScrollInit ==
    /\ \E cols \in 1..MaxCols, rows \in 2..MaxScrollRows :
         \E top \in 0..(rows - 2), cur \in 0..(rows - 1) :
         \E bottom \in (top + 1)..(rows - 1) :
         \E limit \in {ScrollbackLimit, ScrollbackRoom} :
            grid = [GridNew(cols, rows) EXCEPT
                      !.cells = [r \in 0..(rows - 1) |-> MarkedRow(cols, r)],
                      !.scroll_top = top, !.scroll_bottom = bottom,
                      !.cursor_row = cur,
                      !.scrollback_limit = limit]
    /\ performer = PerformerNew
    /\ fault = "none"
    /\ evicted = 0
    /\ pane_tree = PaneTreeNew
    /\ dead = {}
    /\ windows = {MainWindow}
    /\ visible = TRUE
    /\ pending_close = <<>>
    /\ frame = NoFrame
    /\ last_split = "none"
    /\ ConfigInit
    /\ typed = <<>>
    /\ PtyStart
    /\ RenderInit
    /\ SpringInit
    /\ InputInit
    /\ UrlInit
    /\ HistInit
    /\ CacheInit
    /\ MouseInit
    /\ LockInit

\* The counts from 1 to the height of the region
RegionCounts == 1..(grid.scroll_bottom - grid.scroll_top + 1)

ScrollUpBy(n) ==
    /\ grid.generation < MaxScrollGen
    /\ Apply(Res(scroll_up_region(grid, n), performer, "none"))

ScrollDownBy(n) ==
    /\ grid.generation < MaxScrollGen
    /\ Apply(Res(scroll_down_region(grid, n), performer, "none"))

ScrollUp == \E n \in RegionCounts : ScrollUpBy(n)

ScrollDown == \E n \in RegionCounts : ScrollDownBy(n)

ScrollNext ==
    \/ ScrollUp
    \/ ScrollDown

SpecScroll == ScrollInit /\ [][ScrollNext]_vars

----------------------------------------------------------------------------
(* The same grids under CSI Pn L and CSI Pn M *)

\* CSI Pn L (parser.rs:224-227)
InsertLines(n) ==
    /\ grid.generation < MaxScrollGen
    /\ Apply(csi_dispatch(grid, performer, <<n>>, NoInter, FALSE, "L", FALSE))

\* CSI Pn M (parser.rs:229-232)
DeleteLines(n) ==
    /\ grid.generation < MaxScrollGen
    /\ Apply(csi_dispatch(grid, performer, <<n>>, NoInter, FALSE, "M", FALSE))

InsertLine == \E n \in RegionCounts : InsertLines(n)

DeleteLine == \E n \in RegionCounts : DeleteLines(n)

LinesNext ==
    \/ InsertLine
    \/ DeleteLine

SpecLines == ScrollInit /\ [][LinesNext]_vars

----------------------------------------------------------------------------
(* The window under key, mouse, redraw and close events (app.rs) *)

\* window_event returns at once for a window queued for closing
\* (app.rs:790-792), and every handler does nothing without its WindowState.
\* The handlers without the guard of app.rs:790-792: an event for a queued
\* window would reach them.
WindowKnown == MainWindow \in windows

WindowLive ==
    /\ MainWindow \in windows
    /\ \A i \in 1..Len(pending_close) : pending_close[i] # MainWindow

\* window.set_visible(false); self.pending_close.push(window_id)
HideAndQueue ==
    /\ visible' = FALSE
    /\ pending_close' = Append(pending_close, MainWindow)

\* Where the pointer may be when the button goes down: inside, on the seams
\* and past the edge of the content rect
ClickCoords == {0, 16, 31, 32, 48, 63, 64}
Directions == {"Left", "Right", "Up", "Down"}

AppInit ==
    /\ grid = GridNew(MaxCols, MaxRows)
    /\ performer = PerformerNew
    /\ fault = "none"
    /\ evicted = 0
    /\ pane_tree = PaneTreeNew
    /\ dead = {}
    /\ windows = {MainWindow}
    /\ visible = TRUE
    /\ pending_close = <<>>
    /\ frame = NoFrame
    /\ last_split = "none"
    /\ ConfigInit
    /\ typed = <<>>
    /\ PtyStart
    /\ RenderInit
    /\ SpringInit
    /\ InputInit
    /\ UrlInit
    /\ HistInit
    /\ CacheInit
    /\ MouseInit
    /\ LockInit

\* InputAction::SplitHorizontal (app.rs:851-859); resize_panes touches the
\* grids only
SplitHorizontal ==
    /\ WindowLive
    /\ pane_tree.next_id < MaxNextId
    /\ \E spawned \in BOOLEAN :
         /\ pane_tree' = split_horizontal(pane_tree, spawned)
         /\ last_split' = split_result(spawned)
    /\ UNCHANGED <<dead, windows, visible, pending_close, frame, configVars, gridVars, ptyVars, typed, renderVars, springVars, inputVars, urlVars, histVars, cacheVars, mouseVars, lockVars>>

\* InputAction::SplitVertical (app.rs:860-868)
SplitVertical ==
    /\ WindowLive
    /\ pane_tree.next_id < MaxNextId
    /\ \E spawned \in BOOLEAN :
         /\ pane_tree' = split_vertical(pane_tree, spawned)
         /\ last_split' = split_result(spawned)
    /\ UNCHANGED <<dead, windows, visible, pending_close, frame, configVars, gridVars, ptyVars, typed, renderVars, springVars, inputVars, urlVars, histVars, cacheVars, mouseVars, lockVars>>

\* InputAction::ClosePane (app.rs:869-890)
ClosePane ==
    /\ WindowLive
    /\ pane_tree' = close_focused(pane_tree)
    /\ IF pane_tree'.panes = <<>> THEN HideAndQueue
       ELSE UNCHANGED <<visible, pending_close>>
    /\ UNCHANGED <<dead, windows, frame, last_split, configVars, gridVars, ptyVars, typed, renderVars, springVars, inputVars, urlVars, histVars, cacheVars, mouseVars, lockVars>>

FocusNext ==
    /\ WindowLive
    /\ pane_tree' = focus_next(pane_tree)
    /\ UNCHANGED <<dead, windows, visible, pending_close, frame, last_split, configVars, gridVars, ptyVars, typed, renderVars, springVars, inputVars, urlVars, histVars, cacheVars, mouseVars, lockVars>>

FocusPrev ==
    /\ WindowLive
    /\ pane_tree' = focus_prev(pane_tree)
    /\ UNCHANGED <<dead, windows, visible, pending_close, frame, last_split, configVars, gridVars, ptyVars, typed, renderVars, springVars, inputVars, urlVars, histVars, cacheVars, mouseVars, lockVars>>

\* InputAction::FocusLeft/Right/Up/Down (app.rs:901-928)
FocusDirection ==
    /\ WindowLive
    /\ \E dir \in Directions :
         pane_tree' = focus_direction(pane_tree,
                          compute_rects(pane_tree.layout, ContentRect), dir)
    /\ UNCHANGED <<dead, windows, visible, pending_close, frame, last_split, configVars, gridVars, ptyVars, typed, renderVars, springVars, inputVars, urlVars, histVars, cacheVars, mouseVars, lockVars>>

\* MouseInput Pressed Left (app.rs:1135-1170): the pane under the pointer
\* takes the focus, then a selection starts at the cell under the pointer
MouseClick ==
    /\ WindowLive
    /\ \E cx \in ClickCoords, cy \in ClickCoords :
         LET layout_rects == compute_rects(pane_tree.layout, ContentRect)
             t == click_to_focus(pane_tree, layout_rects, cx, cy)
         IN /\ pane_tree' = t
            /\ selection' = start_selection(t, grid, scroll_springs, selection,
                                            layout_rects, cx, cy)
    /\ UNCHANGED <<dead, windows, visible, pending_close, frame, last_split, configVars, gridVars, ptyVars, typed, scroll_springs, cursor_animators, springVars, inputVars, urlVars, histVars, cacheVars, mouseVars, lockVars>>

\* The renderer as the window holds it
TheRenderer == RendererOf(scroll_springs, cursor_animators, app_config)

\* KeyboardInput decoded to a non-empty WriteBytes (app.rs:837-850): the
\* bytes go to the shell of the focused pane, its scroll spring snaps to the
\* bottom and the selection is dropped
KeyInput ==
    /\ WindowLive
    /\ LET r == write_to_focused_pane(TheRenderer, pane_tree)
       IN /\ scroll_springs' = r.scroll_springs
          /\ cursor_animators' = r.cursor_animators
    /\ selection' = None
    /\ UNCHANGED <<appVars, gridVars, ptyVars, typed, springVars, inputVars, urlVars, histVars, cacheVars, mouseVars, lockVars>>

\* InputAction::ScrollViewUp / ScrollViewDown (app.rs:972-993) and
\* WindowEvent::MouseWheel (app.rs:1199-1208)
ScrollView ==
    /\ WindowLive
    /\ \E delta \in ScrollDeltas :
         LET r == scroll_focused(TheRenderer, pane_tree, delta)
         IN /\ scroll_springs' = r.scroll_springs
            /\ cursor_animators' = r.cursor_animators
    /\ UNCHANGED <<appVars, gridVars, ptyVars, typed, selection, springVars, inputVars, urlVars, histVars, cacheVars, mouseVars, lockVars>>

\* InputAction::ResizePaneLeft/Right/Up/Down (app.rs:1031-1066)
ResizePane ==
    /\ WindowLive
    /\ \E dir \in Directions : pane_tree' = resize_focused(pane_tree, dir)
    /\ UNCHANGED <<dead, windows, visible, pending_close, frame, last_split, configVars, gridVars, ptyVars, typed, renderVars, springVars, inputVars, urlVars, histVars, cacheVars, mouseVars, lockVars>>

\* WindowEvent::CloseRequested (app.rs:795-804)
CloseRequested ==
    /\ WindowLive
    /\ HideAndQueue
    /\ UNCHANGED <<pane_tree, dead, windows, frame, last_split, configVars, gridVars, ptyVars, typed, renderVars, springVars, inputVars, urlVars, histVars, cacheVars, mouseVars, lockVars>>

\* Any window event for a window queued for closing: the return of
\* app.rs:790-792, before the match on the event
EventWhilePending ==
    /\ MainWindow \in windows
    /\ ~WindowLive
    /\ UNCHANGED vars

\* about_to_wait (app.rs:762-767): the queued windows go, with their panes
AboutToWait ==
    /\ pending_close # <<>>
    /\ windows' = windows \ SeqToSet(pending_close)
    /\ pending_close' = <<>>
    /\ UNCHANGED <<pane_tree, dead, visible, frame, last_split, configVars, gridVars, ptyVars, typed, renderVars, springVars, inputVars, urlVars, histVars, cacheVars, mouseVars, lockVars>>

\* The shell of a pane exits: child.try_wait() answers Some from now on
ShellExit ==
    /\ MainWindow \in windows
    /\ \E id \in SeqToSet(pane_tree.panes) \ dead : dead' = dead \cup {id}
    /\ UNCHANGED <<pane_tree, windows, visible, pending_close, frame, last_split, configVars, gridVars, ptyVars, typed, renderVars, springVars, inputVars, urlVars, histVars, cacheVars, mouseVars, lockVars>>

\* The config file is written and the watcher of app.rs:273-282 sees it:
\* tx.try_send(()) leaves a notification unless one is waiting already.
ConfigFileWritten ==
    /\ MainWindow \in windows
    /\ \E contents \in FileContents : config_file' = contents
    /\ config_rx' = Min(config_rx + 1, ConfigRxCap)
    /\ UNCHANGED <<pane_tree, dead, windows, visible, pending_close, frame,
                   last_split, config, app_config, gridVars, ptyVars, typed, renderVars, springVars, inputVars, urlVars, histVars, cacheVars, mouseVars, lockVars>>

\* WindowEvent::RedrawRequested (app.rs:1211-1345): a waiting notification
\* reloads the config into the app and the renderer; dead panes are closed,
\* then either the window is hidden and queued and the handler returns, or
\* every pane is drained, the animations are ticked by the time the frame
\* took and the panes the layout names are rendered.
RedrawFrame ==
    /\ WindowLive
    /\ IF config_rx > 0
       THEN /\ config_rx' = config_rx - 1
            /\ config' = load_or_default(config_file)
            /\ app_config' = apply_config(app_config, load_or_default(config_file))
       ELSE UNCHANGED <<config_rx, config, app_config>>
    /\ LET ids == dead_pane_ids(pane_tree, dead)
           t == close_panes(pane_tree, ids)
       IN /\ pane_tree' = t
          /\ IF t.panes = <<>>
             THEN /\ HideAndQueue
                  /\ frame' = [dead |-> SeqToSet(ids), drained |-> {}, rendered |-> {}]
                  /\ UNCHANGED <<scroll_springs, cursor_animators>>
             ELSE /\ UNCHANGED <<visible, pending_close>>
                  /\ frame' = [dead |-> SeqToSet(ids),
                               drained |-> SeqToSet(t.panes),
                               rendered |-> SeqToSet(pane_ids(t.layout))
                                               \cap SeqToSet(t.panes)]
                  /\ \E dt \in Steps :
                       LET r0 == RendererOf(scroll_springs, cursor_animators, app_config')
                           r == render(tick_animations(r0, dt), t, grid)
                       IN /\ scroll_springs' = r.scroll_springs
                          /\ cursor_animators' = r.cursor_animators
    /\ UNCHANGED <<dead, windows, last_split, config_file, gridVars, ptyVars, typed, selection, inputVars, urlVars, histVars, cacheVars, mouseVars, lockVars>>

RedrawRequested == RedrawFrame /\ UNCHANGED springVars

AppNext ==
    \/ SplitHorizontal
    \/ SplitVertical
    \/ ClosePane
    \/ FocusNext
    \/ FocusPrev
    \/ FocusDirection
    \/ MouseClick
    \/ CloseRequested
    \/ EventWhilePending
    \/ AboutToWait
    \/ ShellExit
    \/ RedrawRequested

SpecApp == AppInit /\ [][AppNext]_vars

\* The keys that shape the layout: splits, closes, focus moves and resizes
LayoutNext ==
    \/ SplitHorizontal
    \/ SplitVertical
    \/ ClosePane
    \/ FocusNext
    \/ FocusDirection
    \/ ResizePane

SpecLayout == AppInit /\ [][LayoutNext]_vars

\* The app while config.toml is written under it: SpecApp leaves the file
\* alone, here frames run between writes, over panes that come and go
ConfigNext ==
    \/ ConfigFileWritten
    \/ RedrawRequested
    \/ ShellExit
    \/ SplitHorizontal
    \/ ClosePane
    \/ AboutToWait

SpecConfig == AppInit /\ [][ConfigNext]_vars

-----------------------------------------------------------------------------
(* Directional focus over the layouts that splits build *)

MaxFocusSplits == 3

\* The focus on any pane of the tree: focus_next reaches each of them
Refocused(t) == {[t EXCEPT !.focused_id = t.panes[i]] : i \in 1..Len(t.panes)}

\* The trees one more successful split away
Grown(trees) ==
    UNION {{split_horizontal(f, TRUE), split_vertical(f, TRUE)} : f \in UNION {Refocused(t) : t \in trees}}

RECURSIVE SplitTimes(_)
SplitTimes(n) == IF n = 0 THEN {PaneTreeNew} ELSE Grown(SplitTimes(n - 1))

\* A window of three or four panes, any of them focused, root ratio 0.5;
\* ResizePane moves the root ratio from there
FocusInit ==
    /\ grid = GridNew(MaxCols, MaxRows)
    /\ performer = PerformerNew
    /\ fault = "none"
    /\ evicted = 0
    /\ pane_tree \in UNION {Refocused(t) : t \in SplitTimes(MaxFocusSplits - 1) \cup SplitTimes(MaxFocusSplits)}
    /\ dead = {}
    /\ windows = {MainWindow}
    /\ visible = TRUE
    /\ pending_close = <<>>
    /\ frame = NoFrame
    /\ last_split = "Ok"
    /\ ConfigInit
    /\ typed = <<>>
    /\ PtyStart
    /\ RenderInit
    /\ SpringInit
    /\ InputInit
    /\ UrlInit
    /\ HistInit
    /\ CacheInit
    /\ MouseInit
    /\ LockInit

FocusSpecNext == FocusDirection \/ ResizePane

SpecFocus == FocusInit /\ [][FocusSpecNext]_vars

-----------------------------------------------------------------------------
(* A spring left to itself: tick is called once per 1/60 s frame *)

\* The frequencies a spring starts with: 0.06, 1, the 8 and 15 of the
\* default config and the 10 of the tests, in rad/s
Omegas == {6, 100, 800, 1000, 1500}

\* Where it starts and where it is to go, up to MaxOffsetPx pixels off, at
\* up to MaxSpeedPx pixels per second
MaxOffsetPx == 100
MaxSpeedPx == 100
Positions == {0 - MaxOffsetPx * Fix, 0, 3 * Fix, MaxOffsetPx * Fix}
Targets == {0, MaxOffsetPx * Fix}
Velocities == {0 - MaxSpeedPx * Fix, 0, MaxSpeedPx * Fix}

\* The number of ticks a spring is followed for
ConvergenceTicks == 1000

SpringStart ==
    /\ grid = GridNew(MaxCols, MaxRows)
    /\ performer = PerformerNew
    /\ fault = "none"
    /\ evicted = 0
    /\ pane_tree = PaneTreeNew
    /\ dead = {}
    /\ windows = {MainWindow}
    /\ visible = TRUE
    /\ pending_close = <<>>
    /\ frame = NoFrame
    /\ last_split = "none"
    /\ ConfigInit
    /\ typed = <<>>
    /\ PtyStart
    /\ RenderInit
    /\ InputInit
    /\ UrlInit
    /\ HistInit
    /\ CacheInit
    /\ MouseInit
    /\ LockInit
    /\ spring \in {[position |-> p, velocity |-> v, target |-> t, omega |-> w] :
                     p \in Positions, v \in Velocities, t \in Targets, w \in Omegas}
    /\ ticks = 0

SpringTick ==
    /\ ticks < ConvergenceTicks
    /\ spring' = tick(spring, Frame60)
    /\ ticks' = ticks + 1
    /\ UNCHANGED <<gridVars, appVars, ptyVars, typed, renderVars, inputVars, urlVars, histVars, cacheVars, mouseVars, lockVars>>

SpecSpring == SpringStart /\ [][SpringTick]_vars

-----------------------------------------------------------------------------
(* One ScrollSpring under the calls of its interface *)

\* A scroll spring is ticked at most MaxScrollTicks times
MaxScrollTicks == 3

\* max_offset is scrollback_len * cell_h (renderer/mod.rs:317)
MaxOffsets == {0, 2 * CellH * Fix}

\* Offsets below, inside and above the range
TargetOffsets == {0 - 10 * Fix, 40 * Fix, 999 * Fix}

\* The scroll spring of pane 0
TheSpring == scroll_springs[0]

ScrollSpringStart ==
    /\ grid = GridNew(MaxCols, MaxRows)
    /\ performer = PerformerNew
    /\ fault = "none"
    /\ evicted = 0
    /\ pane_tree = PaneTreeNew
    /\ dead = {}
    /\ windows = {MainWindow}
    /\ visible = TRUE
    /\ pending_close = <<>>
    /\ frame = NoFrame
    /\ last_split = "none"
    /\ ConfigInit
    /\ typed = <<>>
    /\ PtyStart
    /\ \E m \in MaxOffsets :
         scroll_springs = (0 :> [ScrollSpringNew(1500) EXCEPT !.max_offset = m])
    /\ cursor_animators = {0}
    /\ selection = None
    /\ SpringInit
    /\ InputInit
    /\ UrlInit
    /\ HistInit
    /\ CacheInit
    /\ MouseInit
    /\ LockInit

ScrollBy ==
    /\ \E delta \in ScrollDeltas :
         scroll_springs' = [scroll_springs EXCEPT ![0] = scroll_by(@, delta)]
    /\ UNCHANGED <<gridVars, appVars, ptyVars, typed, cursor_animators, selection, springVars, inputVars, urlVars, histVars, cacheVars, mouseVars, lockVars>>

SetTargetPixels ==
    /\ \E offset \in TargetOffsets :
         scroll_springs' = [scroll_springs EXCEPT ![0] = set_target_pixels(@, offset)]
    /\ UNCHANGED <<gridVars, appVars, ptyVars, typed, cursor_animators, selection, springVars, inputVars, urlVars, histVars, cacheVars, mouseVars, lockVars>>

SnapToBottom ==
    /\ scroll_springs' = [scroll_springs EXCEPT ![0] = snap_to_bottom(@)]
    /\ UNCHANGED <<gridVars, appVars, ptyVars, typed, cursor_animators, selection, springVars, inputVars, urlVars, histVars, cacheVars, mouseVars, lockVars>>

ScrollTick ==
    /\ ticks < MaxScrollTicks
    /\ \E dt \in Steps :
         scroll_springs' = [scroll_springs EXCEPT ![0] = scroll_tick(@, dt)]
    /\ ticks' = ticks + 1
    /\ UNCHANGED <<gridVars, appVars, ptyVars, typed, cursor_animators, selection, spring, inputVars, urlVars, histVars, cacheVars, mouseVars, lockVars>>

\* spring.max_offset = scrollback_len as f32 * cell_h: the scrollback grew,
\* or was emptied
MaxOffsetUpdated ==
    /\ \E m \in MaxOffsets :
         scroll_springs' = [scroll_springs EXCEPT ![0].max_offset = m]
    /\ UNCHANGED <<gridVars, appVars, ptyVars, typed, cursor_animators, selection, springVars, inputVars, urlVars, histVars, cacheVars, mouseVars, lockVars>>

ScrollSpringNext ==
    \/ ScrollBy
    \/ SetTargetPixels
    \/ SnapToBottom
    \/ ScrollTick
    \/ MaxOffsetUpdated

SpecScrollSpring == ScrollSpringStart /\ [][ScrollSpringNext]_vars

-----------------------------------------------------------------------------
(* The text caches of the renderer for one pane, between parser callbacks   *)
(* and wheel events.  A span buffer is the row index, the column, the       *)
(* character and the colour it was shaped from; a Vec of them is their set. *)

\* Cell::is_empty (cell.rs:39-41)
is_empty(cell) == cell.ch = " " \/ cell.ch = NUL

\* The colour source of a glyph (text_renderer.rs:191-197); a row narrower
\* than seven cells holds no hex colour code
raw_fg(cell) == IF cell.attrs.reverse THEN cell.attrs.bg ELSE cell.attrs.fg

SpanBuffer(row_idx, col, cell) ==
    [row_idx |-> row_idx, col_start |-> col, ch |-> cell.ch, color |-> raw_fg(cell)]

\* build_span_buffers (text_renderer.rs:151-232): one buffer for every cell of
\* the visible grid that is not empty
build_span_buffers(g) ==
    {SpanBuffer(rc[1], rc[2], g.cells[rc[1]][rc[2]]) :
        rc \in {x \in (0..(g.rows - 1)) \X (0..(g.cols - 1)) :
                   ~is_empty(g.cells[x[1]][x[2]])}}

\* build_scrollback_span_buffers (text_renderer.rs:238-306) over the rows
\* first_abs..last_abs (exclusive) of the scrollback, whose row 0 is
\* scrollback[1] here: row_idx = abs_row - scrollback_total_len
build_scrollback_span_buffers(scrollback, first_abs, last_abs) ==
    UNION {{SpanBuffer(abs - Len(scrollback), c, scrollback[abs + 1][c]) :
               c \in {x \in DOMAIN scrollback[abs + 1] :
                         ~is_empty(scrollback[abs + 1][x])}} :
           abs \in first_abs..(last_abs - 1)}

\* (scroll_offset / cell_h).ceil() as usize, for an offset that is positive
rows_above(scroll_offset) ==
    (scroll_offset + CellH * Fix - 1) \div (CellH * Fix)

\* The key of the scrollback cache (renderer/mod.rs:346-350)
cache_key(g, scroll_offset) ==
    <<Len(g.scrollback),
      SatSub(Len(g.scrollback), rows_above(scroll_offset) + g.rows)>>

\* scroll_offset > 0.5 && scrollback_len > 0 (renderer/mod.rs:341)
Scrolled(g, scroll_offset) == 2 * scroll_offset > Fix /\ Len(g.scrollback) > 0

\* The visible cache after the refresh (renderer/mod.rs:325-338)
refresh_text_cache(tc, g) ==
    IF tc # None /\ tc[1][1] = g.generation
    THEN tc
    ELSE Some(<<g.generation, build_span_buffers(g)>>)

\* The scrollback cache after the refresh (renderer/mod.rs:340-375)
refresh_scrollback_cache(sc, g, scroll_offset) ==
    LET key == cache_key(g, scroll_offset)
    IN IF Scrolled(g, scroll_offset)
       THEN IF sc # None /\ sc[1][1] = key
            THEN sc
            ELSE Some(<<key, build_scrollback_span_buffers(
                                 g.scrollback, key[2], Len(g.scrollback))>>)
       ELSE None

\* The frames, and so the ticks of the spring, are counted up to MaxCacheFrames
\* and the grid is written up to generation MaxCacheGen
MaxCacheFrames == 3
MaxCacheGen == 4

\* One pane of one column and two rows whose scrollback holds ScrollbackLimit
\* rows, with its spring and animator
CacheStart ==
    /\ grid = GridNew(1, 2)
    /\ performer = PerformerNew
    /\ fault = "none"
    /\ evicted = 0
    /\ pane_tree = PaneTreeNew
    /\ dead = {}
    /\ windows = {MainWindow}
    /\ visible = TRUE
    /\ pending_close = <<>>
    /\ frame = NoFrame
    /\ last_split = "none"
    /\ ConfigInit
    /\ typed = <<>>
    /\ PtyStart
    /\ scroll_springs = (0 :> ScrollSpringNew(1500))
    /\ cursor_animators = {0}
    /\ selection = None
    /\ SpringInit
    /\ InputInit
    /\ UrlInit
    /\ HistInit
    /\ CacheInit
    /\ MouseInit
    /\ LockInit

CacheUnchanged ==
    UNCHANGED <<appVars, ptyVars, typed, renderVars, springVars, inputVars,
                urlVars, histVars, cacheVars, mouseVars, lockVars>>

CacheApply(res) ==
    /\ fault = "none"
    /\ grid.generation < MaxCacheGen
    /\ grid' = [res.g EXCEPT !.removed = 0]
    /\ performer' = res.p
    /\ fault' = res.fault
    /\ evicted' = res.g.removed
    /\ CacheUnchanged

\* print (parser.rs:30-57)
CachePrint == \E c \in {"a", "b"} : CacheApply(print(grid, performer, c))

\* execute of LF (parser.rs:76-81)
CacheLineFeed == CacheApply(execute(grid, performer, 10))

\* CSI Pn P (parser.rs:233-247)
CacheDeleteChars ==
    \E n \in 1..2 :
        CacheApply(csi_dispatch(grid, performer, <<n>>, NoInter, FALSE, "P", FALSE))

\* A wheel line each way on the pane (app.rs:1199-1208)
CacheWheel ==
    /\ \E delta \in {20 * Fix, 0 - 20 * Fix} :
         scroll_springs' = [scroll_springs EXCEPT ![0] = scroll_by(@, delta)]
    /\ scroll_springs' # scroll_springs
    /\ UNCHANGED <<gridVars, appVars, ptyVars, typed, cursor_animators, selection,
                   springVars, inputVars, urlVars, histVars, cacheVars, mouseVars,
                   lockVars>>

\* One frame of the pane: the spring ticked, its max_offset set from the
\* scrollback, and both caches refreshed under the grid lock
\* (renderer/mod.rs:305-378)
CacheFrame ==
    /\ ticks < MaxCacheFrames
    /\ ticks' = ticks + 1
    /\ \E dt \in Steps :
         LET ss == [scroll_tick(scroll_springs[0], dt) EXCEPT
                      !.max_offset = Len(grid.scrollback) * CellH * Fix]
         IN /\ scroll_springs' = [scroll_springs EXCEPT ![0] = ss]
            /\ text_cache' = refresh_text_cache(text_cache, grid)
            /\ scrollback_text_cache' =
                   refresh_scrollback_cache(scrollback_text_cache, grid,
                                            pixel_offset(ss))
    /\ UNCHANGED <<gridVars, appVars, ptyVars, typed, cursor_animators, selection,
                   spring, inputVars, urlVars, histVars, mouseVars, lockVars>>

CacheNext ==
    \/ CachePrint
    \/ CacheLineFeed
    \/ CacheDeleteChars
    \/ CacheWheel
    \/ CacheFrame

SpecCache == CacheStart /\ [][CacheNext]_vars

-----------------------------------------------------------------------------
(* The pointer over one pane whose row is rewritten by PTY output: moves,   *)
(* presses and releases of the left button (app.rs:1087-1197)               *)

\* The characters of a row of cells, as detect_urls reads them (url.rs:15)
RowChars(row_cells) ==
    [i \in 1..Cardinality(DOMAIN row_cells) |-> row_cells[i - 1].ch]

\* WindowState::url_at_cell (app.rs:172-195): the match of detect_urls that
\* covers the column, as Some of <<col_start, col_end, url>>
url_at_cell(t, g, pane_id, abs_row, col) ==
    LET scrollback_len == Len(g.scrollback)
        vis_row == abs_row - scrollback_len
        urls == detect_urls(RowChars(IF abs_row < scrollback_len
                                     THEN g.scrollback[abs_row + 1]
                                     ELSE g.cells[vis_row]))
        hits == {i \in 1..Len(urls) : col >= urls[i][1] /\ col < urls[i][2]}
    IN IF pane_id \notin SeqToSet(t.panes) THEN None
       ELSE IF abs_row >= scrollback_len /\ vis_row >= g.rows THEN None
       ELSE IF hits = {} THEN None
       ELSE Some(urls[CHOOSE i \in hits : \A j \in hits : i <= j])

\* Selection::is_empty: anchor == head
selection_is_empty(sel) == sel.anchor = sel.head

\* The hover detection of CursorMoved (app.rs:1107-1131): the URL under the
\* pointer in the first pane whose rectangle holds it, or None
hover(t, g, springs, layout_rects, px, py) ==
    LET hits == {i \in 1..Len(layout_rects) : InRect(px, py, layout_rects[i][2])}
        first == CHOOSE i \in hits : \A j \in hits : i <= j
        pane_id == layout_rects[first][1]
        cell == pixel_to_cell(t, g, springs, px, py, layout_rects[first][2], pane_id)
        url == url_at_cell(t, g, pane_id, cell[1][1], cell[1][2])
    IN IF hits = {} THEN None
       ELSE IF cell = None THEN None
       ELSE IF url = None THEN None
       ELSE Some(<<pane_id, cell[1][1], url[1][1], url[1][2], url[1][3]>>)

\* The selection extended while the button is held (app.rs:1090-1104)
extend_selection(t, g, springs, sel, layout_rects, px, py) ==
    LET found == FindRect(layout_rects, t.focused_id)
        head == pixel_to_cell(t, g, springs, px, py, found[1], t.focused_id)
    IN IF found = None \/ sel = None THEN sel
       ELSE IF head = None THEN sel
       ELSE Some([sel[1] EXCEPT !.head = head[1]])

\* The lines a shell writes over the row: a carriage return and seven
\* characters
ClickLines == {<<"\r", "w", "w", "w", ".", "a", ".", "b">>,
               <<"\r", "w", "w", "w", ".", "b", ".", "a">>,
               <<"\r", "a", " ", "b", " ", "a", " ", "b">>}

\* vte::Parser::advance over a chunk of a carriage return and printable
\* characters: execute(0x0d) and print, callback after callback
RECURSIVE advance(_, _, _)
advance(g, p, chunk) ==
    IF chunk = <<>> THEN Res(g, p, "none")
    ELSE LET res == IF Head(chunk) = "\r" THEN execute(g, p, 13)
                    ELSE print(g, p, Head(chunk))
         IN advance(res.g, res.p, Tail(chunk))

\* Where the pointer is put: over columns 1, 3 and 6 of the row, and below it
PointerXs == {12, 28, 52}
PointerYs == {8, 40}

\* The row is written up to generation MaxClickGen
MaxClickGen == 14

\* One pane of eight columns and one row that fills the window
ClickStart ==
    /\ grid = GridNew(8, 1)
    /\ performer = PerformerNew
    /\ fault = "none"
    /\ evicted = 0
    /\ pane_tree = PaneTreeNew
    /\ dead = {}
    /\ windows = {MainWindow}
    /\ visible = TRUE
    /\ pending_close = <<>>
    /\ frame = NoFrame
    /\ last_split = "none"
    /\ ConfigInit
    /\ typed = <<>>
    /\ PtyStart
    /\ RenderInit
    /\ SpringInit
    /\ InputInit
    /\ UrlInit
    /\ HistInit
    /\ CacheInit
    /\ MouseInit
    /\ LockInit

\* drain_pty_output of a chunk that holds one line (terminal/mod.rs:33-38)
ClickOutput ==
    /\ grid.generation < MaxClickGen
    /\ \E chunk \in ClickLines : Apply(advance(grid, performer, chunk))

\* WindowEvent::CursorMoved (app.rs:1087-1133)
CursorMoved ==
    /\ \E px \in PointerXs, py \in PointerYs :
         LET layout_rects == compute_rects(pane_tree.layout, ContentRect)
         IN /\ cursor_pos' = <<px, py>>
            /\ selection' = IF mouse_button_down
                            THEN extend_selection(pane_tree, grid, scroll_springs,
                                                  selection, layout_rects, px, py)
                            ELSE selection
            /\ hovered_url' = hover(pane_tree, grid, scroll_springs, layout_rects,
                                    px, py)
    /\ UNCHANGED <<gridVars, appVars, ptyVars, typed, scroll_springs, cursor_animators,
                   springVars, inputVars, urlVars, histVars, cacheVars,
                   mouse_button_down, launched, lockVars>>

\* WindowEvent::MouseInput Pressed Left (app.rs:1135-1170)
MousePressed ==
    /\ ~mouse_button_down
    /\ mouse_button_down' = TRUE
    /\ LET layout_rects == compute_rects(pane_tree.layout, ContentRect)
           t == click_to_focus(pane_tree, layout_rects, cursor_pos[1], cursor_pos[2])
       IN /\ pane_tree' = t
          /\ selection' = start_selection(t, grid, scroll_springs, selection,
                                          layout_rects, cursor_pos[1], cursor_pos[2])
    /\ UNCHANGED <<dead, windows, visible, pending_close, frame, last_split,
                   configVars, gridVars, ptyVars, typed, scroll_springs,
                   cursor_animators, springVars, inputVars, urlVars, histVars,
                   cacheVars, cursor_pos, hovered_url, launched, lockVars>>

\* A release that opens the hovered URL: the selection is a click
Launches ==
    /\ selection # None
    /\ selection_is_empty(selection[1])
    /\ hovered_url # None

\* WindowEvent::MouseInput Released Left (app.rs:1172-1197)
MouseReleased ==
    /\ mouse_button_down
    /\ mouse_button_down' = FALSE
    /\ launched' = IF Launches THEN Some(hovered_url[1][5]) ELSE launched
    /\ selection' = IF selection # None /\ selection_is_empty(selection[1])
                    THEN None ELSE selection
    /\ UNCHANGED <<gridVars, appVars, ptyVars, typed, scroll_springs, cursor_animators,
                   springVars, inputVars, urlVars, histVars, cacheVars,
                   cursor_pos, hovered_url, lockVars>>

ClickNext ==
    \/ ClickOutput
    \/ CursorMoved
    \/ MousePressed
    \/ MouseReleased

SpecClick == ClickStart /\ [][ClickNext]_vars

-----------------------------------------------------------------------------
(* Keys, scrolling and clicks in a window that is split *)

\* The frames are counted up to MaxFrames
MaxFrames == 2

\* Two panes after one split, either of them focused, over a grid that has
\* scrolled MaxRows rows into a scrollback with room for them
RenderStart ==
    /\ grid = [scroll_up_region([GridNew(MaxCols, MaxRows) EXCEPT
                                   !.scrollback_limit = ScrollbackRoom], MaxRows)
                 EXCEPT !.removed = 0]
    /\ performer = PerformerNew
    /\ fault = "none"
    /\ evicted = 0
    /\ pane_tree \in UNION {Refocused(t) : t \in SplitTimes(1)}
    /\ dead = {}
    /\ windows = {MainWindow}
    /\ visible = TRUE
    /\ pending_close = <<>>
    /\ frame = NoFrame
    /\ last_split = "Ok"
    /\ ConfigInit
    /\ typed = <<>>
    /\ PtyStart
    /\ RenderInit
    /\ SpringInit
    /\ InputInit
    /\ UrlInit
    /\ HistInit
    /\ CacheInit
    /\ MouseInit
    /\ LockInit

\* A RedrawRequested frame, counted
CountedRedraw ==
    /\ ticks < MaxFrames
    /\ RedrawFrame
    /\ ticks' = ticks + 1
    /\ UNCHANGED spring

RenderNext ==
    \/ KeyInput
    \/ ScrollView
    \/ MouseClick
    \/ CountedRedraw

SpecRender == RenderStart /\ [][RenderNext]_vars

----------------------------------------------------------------------------
(* Key events through the decoder *)

Letters == (65..90) \cup (97..122)
\* the letters, the digits and the punctuation the shortcuts name
CharacterKeys == Letters \cup (48..57) \cup {44, 91, 93}
NamedKeys == {"Space", "Enter", "Tab", "Backspace", "Delete", "Escape",
              "ArrowUp", "ArrowDown", "ArrowRight", "ArrowLeft",
              "Home", "End", "PageUp", "PageDown",
              "F1", "F2", "F3", "F4", "F5", "F6", "F7", "F8", "F9", "F10",
              "F11", "F12", "Insert"}
LogicalKeys == {Character(ch) : ch \in CharacterKeys} \cup {Named(n) : n \in NamedKeys}
                 \cup {OtherKey}
ModifiersStates == [cmd : BOOLEAN, shift : BOOLEAN, ctrl : BOOLEAN, alt : BOOLEAN]
KeyEvents == [state : {"Pressed", "Released"}, logical_key : LogicalKeys]

\* WindowEvent::KeyboardInput up to the decoded action (app.rs)
HandleKeyEvent ==
    \E key_event \in KeyEvents : \E modifiers \in ModifiersStates :
        /\ event' = Some([key_event |-> key_event, modifiers |-> modifiers])
        /\ input_action' = Some(handle_key_event(key_event, modifiers))
        /\ UNCHANGED <<gridVars, appVars, ptyVars, typed, renderVars, springVars, urlVars, histVars, cacheVars, mouseVars, lockVars>>

SpecInput == AppInit /\ [][HandleKeyEvent]_vars

----------------------------------------------------------------------------
(* The current attributes under SGR sequences *)

\* Color values that are also the codes of attributes (1 bold, 3 italic,
\* 4 underline, 5 blink, 7 reverse), so that a color parameter read as a
\* code of its own would show
ColorIndexes == {1, 4, 196}
ColorTriples == {<<255, 128, 0>>, <<5, 3, 7>>}

\* The parameter groups a list is made of: one code, or 38/48 with its color
SgrGroups ==
    {<<0>>, <<1>>, <<3>>, <<7>>, <<22>>, <<31>>, <<42>>, <<97>>, <<100>>, <<39>>, <<49>>}
      \cup {<<k, 5, n>> : k \in {38, 48}, n \in ColorIndexes}
      \cup {<<k, 2, c[1], c[2], c[3]>> : k \in {38, 48}, c \in ColorTriples}

\* The lists of at most n groups
RECURSIVE SgrLists(_)
SgrLists(n) ==
    IF n = 0 THEN {<<>>}
    ELSE SgrLists(n - 1) \cup {l \o grp : l \in SgrLists(n - 1), grp \in SgrGroups}

MaxSgrGroups == 2

\* CSI Ps ; ... m (parser.rs:334-337)
SelectGraphicRendition ==
    \E ps \in SgrLists(MaxSgrGroups) :
        Apply(csi_dispatch(grid, performer, ps, NoInter, FALSE, "m", FALSE))

SpecSgr == AppInit /\ [][SelectGraphicRendition]_vars

----------------------------------------------------------------------------
(* Rows of text searched for URLs *)

MaxTail == 3
TailChars == {"x", ".", "/", "(", ")", ","}
\* what follows the scheme: at most MaxTail characters
Tails == UNION {[1..n -> TailChars] : n \in 0..MaxTail}
Schemes == {Https, Http, Www}
\* the text before and after: nothing, blanks, words, and punctuation that
\* touches the URL
Before == {<<>>, <<" ">>, <<"X", "X", " ">>, <<"(">>, <<"w", "w", "w", ".", " ">>}
After == {<<>>, <<" ">>, <<" ", "Y", "Y">>, <<"\"">>}
Rows == {b \o s \o t \o a : b \in Before, s \in Schemes, t \in Tails, a \in After}

UrlStart ==
    /\ grid = GridNew(MaxCols, MaxRows)
    /\ performer = PerformerNew
    /\ fault = "none"
    /\ evicted = 0
    /\ pane_tree = PaneTreeNew
    /\ dead = {}
    /\ windows = {MainWindow}
    /\ visible = TRUE
    /\ pending_close = <<>>
    /\ frame = NoFrame
    /\ last_split = "none"
    /\ ConfigInit
    /\ typed = <<>>
    /\ PtyStart
    /\ RenderInit
    /\ SpringInit
    /\ InputInit
    /\ url_row \in Rows
    /\ url_matches = None
    /\ HistInit
    /\ CacheInit
    /\ MouseInit
    /\ LockInit

\* let urls = detect_urls(row_cells) (app.rs:188)
DetectUrls ==
    /\ url_matches = None
    /\ url_matches' = Some(detect_urls(url_row))
    /\ UNCHANGED <<gridVars, appVars, ptyVars, typed, renderVars, springVars, inputVars,
                   url_row, histVars, cacheVars, mouseVars, lockVars>>

SpecUrl == UrlStart /\ [][DetectUrls]_vars

----------------------------------------------------------------------------
(* Reader threads against the UI drain *)

\* reader.read(&mut buf) returns Ok(n), n > 0 (pty.rs:103-106)
ReaderRead ==
    \E p \in PtySet : \E data \in ChunkData :
        /\ reader[p].pc = "read"
        /\ Len(pty_read[p]) + Len(data) <= MaxStream
        /\ pty_read' = [pty_read EXCEPT ![p] = @ \o data]
        /\ reader' = [reader EXCEPT ![p] = [pc |-> "send", data |-> data]]
        /\ UNCHANGED <<channel, receiver_alive, ui, consumed, gridVars, appVars, typed, renderVars, springVars, inputVars, urlVars, histVars, cacheVars, mouseVars, lockVars>>

\* reader.read returns Ok(0) or Err: the thread ends (pty.rs:104, 111)
ReaderEof ==
    \E p \in PtySet :
        /\ reader[p].pc = "read"
        /\ reader' = [reader EXCEPT ![p] = [pc |-> "done", data |-> <<>>]]
        /\ UNCHANGED <<pty_read, channel, receiver_alive, ui, consumed, gridVars, appVars, typed, renderVars, springVars, inputVars, urlVars, histVars, cacheVars, mouseVars, lockVars>>

\* The reader with try_send in place of send: a chunk that finds the channel
\* full is gone.
ReaderTrySend ==
    \E p \in PtySet :
        /\ reader[p].pc = "send"
        /\ IF receiver_alive[p]
           THEN /\ channel' = [channel EXCEPT ![p] =
                       IF Len(@) < ChannelCap THEN Append(@, reader[p].data) ELSE @]
                /\ reader' = [reader EXCEPT ![p] = ReaderNew]
           ELSE /\ reader' = [reader EXCEPT ![p] = [pc |-> "done", data |-> <<>>]]
                /\ UNCHANGED channel
        /\ UNCHANGED <<pty_read, receiver_alive, ui, consumed, gridVars, appVars, typed, renderVars, springVars, inputVars, urlVars, histVars, cacheVars, mouseVars, lockVars>>

\* sender_clone.send(data) (pty.rs:107): blocks while the channel is full,
\* fails once the Receiver is gone
ReaderSend ==
    \E p \in PtySet :
        /\ reader[p].pc = "send"
        /\ IF receiver_alive[p]
           THEN /\ Len(channel[p]) < ChannelCap
                /\ channel' = [channel EXCEPT ![p] = Append(@, reader[p].data)]
                /\ reader' = [reader EXCEPT ![p] = ReaderNew]
           ELSE /\ reader' = [reader EXCEPT ![p] = [pc |-> "done", data |-> <<>>]]
                /\ UNCHANGED channel
        /\ UNCHANGED <<pty_read, receiver_alive, ui, consumed, gridVars, appVars, typed, renderVars, springVars, inputVars, urlVars, histVars, cacheVars, mouseVars, lockVars>>

\* drain_all_pty_output (pane/mod.rs:199-203) begins: the panes in Vec order
DrainBegin ==
    /\ ui.pc = "idle"
    /\ ui' = [pc |-> "recv",
              todo |-> SelectSeq(Ptys, LAMBDA p : receiver_alive[p]),
              chunks |-> <<>>]
    /\ ui'.todo # <<>>
    /\ UNCHANGED <<pty_read, reader, channel, receiver_alive, consumed, gridVars, appVars, typed, renderVars, springVars, inputVars, urlVars, histVars, cacheVars, mouseVars, lockVars>>

\* One turn of the loop of try_recv_all (pty.rs:143-145) for the pane at the
\* head of todo
TryRecv ==
    /\ ui.pc = "recv"
    /\ LET p == Head(ui.todo)
       IN IF channel[p] # <<>>
          THEN /\ ui' = [ui EXCEPT !.chunks = Append(@, Head(channel[p]))]
               /\ channel' = [channel EXCEPT ![p] = Tail(@)]
          ELSE /\ ui' = [ui EXCEPT !.pc = "advance"]
               /\ UNCHANGED channel
    /\ UNCHANGED <<pty_read, reader, receiver_alive, consumed, gridVars, appVars, typed, renderVars, springVars, inputVars, urlVars, histVars, cacheVars, mouseVars, lockVars>>

\* The loop of drain_pty_output (terminal/mod.rs:35-37), then the next pane
\* or the end of the frame's drain
Advance ==
    /\ ui.pc = "advance"
    /\ LET p == Head(ui.todo)
       IN /\ consumed' = [consumed EXCEPT ![p] = feed_chunks(@, ui.chunks)]
          /\ ui' = IF Tail(ui.todo) = <<>> THEN UiIdle
                   ELSE [pc |-> "recv", todo |-> Tail(ui.todo), chunks |-> <<>>]
    /\ UNCHANGED <<pty_read, reader, channel, receiver_alive, gridVars, appVars, typed, renderVars, springVars, inputVars, urlVars, histVars, cacheVars, mouseVars, lockVars>>

\* The pane is closed between frames: its Terminal, PtyHandle and Receiver
\* are dropped with whatever the channel still holds
DropPty ==
    \E p \in PtySet :
        /\ ui.pc = "idle"
        /\ receiver_alive[p]
        /\ receiver_alive' = [receiver_alive EXCEPT ![p] = FALSE]
        /\ channel' = [channel EXCEPT ![p] = <<>>]
        /\ UNCHANGED <<pty_read, reader, ui, consumed, gridVars, appVars, typed, renderVars, springVars, inputVars, urlVars, histVars, cacheVars, mouseVars, lockVars>>

PtyNext ==
    \/ ReaderRead
    \/ ReaderEof
    \/ ReaderSend
    \/ DrainBegin
    \/ TryRecv
    \/ Advance
    \/ DropPty

SpecPty == AppInit /\ [][PtyNext]_vars

----------------------------------------------------------------------------
(* Reader threads whose panes are closed.  A thread that can take a step    *)
(* takes it (the scheduler is fair to the reader and to the UI thread); when *)
(* a blocked read returns is up to the shell on the other side of the PTY.   *)

\* The step of the reader thread of p that is its own: the send
ReaderSendOf(p) == ReaderSend /\ reader[p].pc = "send"

SpecDrop ==
    /\ AppInit
    /\ [][PtyNext]_vars
    /\ \A p \in PtySet : WF_vars(ReaderSendOf(p))
    /\ WF_vars(TryRecv)
    /\ WF_vars(Advance)

----------------------------------------------------------------------------
(* The grid mutex of a pane (parking_lot::Mutex, not reentrant) under the   *)
(* code paths of the UI thread that lock it, with the reader threads         *)
(* running.  A code path is the lock and unlock calls it makes, in order;   *)
(* an unlock is the drop of the guard, explicit or at the end of its scope. *)

\* A guard taken, alive over the calls of body, and dropped
Guard(body) == <<"lock">> \o body \o <<"unlock">>

\* print (parser.rs:30-57): one guard to the end of the callback
print_locks == Guard(<<>>)

\* execute with LF, VT and FF keeping the first guard while they lock again
execute_locks_without_drop(byte) ==
    IF byte \in {10, 11, 12} THEN Guard(Guard(<<>>)) ELSE Guard(<<>>)

\* execute (parser.rs:59-91): LF, VT and FF drop the guard and lock again
execute_locks(byte) ==
    IF byte \in {10, 11, 12} THEN Guard(<<>>) \o Guard(<<>>) ELSE Guard(<<>>)

\* osc_dispatch (parser.rs:97-113): a guard only to set the title
osc_dispatch_locks(sets_title) == IF sets_title THEN Guard(<<>>) ELSE <<>>

\* csi_dispatch (parser.rs:115-398): one guard, after the ignore check
csi_dispatch_locks(ignore) == IF ignore THEN <<>> ELSE Guard(<<>>)

\* esc_dispatch (parser.rs:400-442): IND and NEL drop the guard and lock again
esc_dispatch_locks(ignore, byte) ==
    IF ignore THEN <<>>
    ELSE IF byte \in {"D", "E"} THEN Guard(<<>>) \o Guard(<<>>)
    ELSE Guard(<<>>)

\* Terminal::resize (terminal/mod.rs:44-48): a guard for one statement
resize_locks == Guard(<<>>)

\* WindowState::pixel_to_cell (app.rs:143-147)
pixel_to_cell_locks == Guard(<<>>)

\* WindowState::url_at_cell (app.rs:172-195): the guard lives to the return,
\* over detect_urls, which takes the cells and locks nothing
url_at_cell_locks == Guard(<<>>)

\* CursorMoved (app.rs:1087-1133): pixel_to_cell for a held button, then
\* pixel_to_cell and url_at_cell for the pane under the pointer
cursor_moved_locks(button_down, in_pane, in_grid) ==
    (IF button_down THEN pixel_to_cell_locks ELSE <<>>)
    \o (IF in_pane
        THEN pixel_to_cell_locks \o (IF in_grid THEN url_at_cell_locks ELSE <<>>)
        ELSE <<>>)

\* MouseInput Pressed (app.rs:1135-1170): pixel_to_cell
mouse_pressed_locks == pixel_to_cell_locks

\* Copy (app.rs:1001-1004) and Paste (app.rs:1018)
copy_locks == Guard(<<>>)
paste_locks == Guard(<<>>)

\* RedrawRequested after the drain: the cursor update (app.rs:1266-1283), the
\* cache refresh (renderer/mod.rs:310-377), the selection
\* (renderer/mod.rs:398-402) and the hovered URL (renderer/mod.rs:461-463),
\* each under a guard of its own
redraw_locks(has_selection, has_hover) ==
    Guard(<<>>) \o Guard(<<>>)
    \o (IF has_selection THEN Guard(<<>>) ELSE <<>>)
    \o (IF has_hover THEN Guard(<<>>) ELSE <<>>)

\* The reader thread (pty.rs:100-114) holds the reader and the Sender only
reader_locks == <<>>

LockPath(name, ops) == [path |-> name, ops |-> ops]

\* The code paths of the UI thread
LockPaths ==
    {LockPath("print", print_locks)}
    \cup {LockPath("execute", execute_locks(byte)) : byte \in {8}}
    \cup {LockPath("execute_lf", execute_locks(byte)) : byte \in {10, 11, 12}}
    \cup {LockPath("osc_dispatch", osc_dispatch_locks(b)) : b \in {TRUE}}
    \cup {LockPath("csi_dispatch", csi_dispatch_locks(b)) : b \in {FALSE}}
    \cup {LockPath("esc_dispatch", esc_dispatch_locks(FALSE, byte)) : byte \in {"7", "M"}}
    \cup {LockPath("esc_index", esc_dispatch_locks(FALSE, byte)) : byte \in {"D", "E"}}
    \cup {LockPath("resize", resize_locks)}
    \cup {LockPath("cursor_moved", cursor_moved_locks(d, p, g)) :
             d \in BOOLEAN, p \in {TRUE}, g \in BOOLEAN}
    \cup {LockPath("mouse_pressed", mouse_pressed_locks)}
    \cup {LockPath("copy", copy_locks), LockPath("paste", paste_locks)}
    \cup {LockPath("redraw", redraw_locks(s, h)) : s \in BOOLEAN, h \in BOOLEAN}

UiThread == "ui"

LockUnchanged ==
    UNCHANGED <<gridVars, appVars, ptyVars, typed, renderVars, springVars,
                inputVars, urlVars, histVars, cacheVars, mouseVars>>

\* The UI thread, between two code paths, enters one
UiBegin ==
    /\ ~lock_stuck
    /\ lock_ops.ops = <<>>
    /\ \E path \in LockPaths : lock_ops' = path
    /\ UNCHANGED <<lock_owner, lock_stuck>>
    /\ LockUnchanged

\* grid.lock(): the guard is given when nobody holds the mutex; a thread that
\* holds it waits for itself
UiLock ==
    /\ ~lock_stuck
    /\ lock_ops.ops # <<>>
    /\ Head(lock_ops.ops) = "lock"
    /\ IF lock_owner = None
       THEN /\ lock_owner' = Some(UiThread)
            /\ lock_ops' = [lock_ops EXCEPT !.ops = Tail(@)]
            /\ UNCHANGED lock_stuck
       ELSE /\ lock_stuck' = TRUE
            /\ UNCHANGED <<lock_owner, lock_ops>>
    /\ LockUnchanged

\* The guard is dropped
UiUnlock ==
    /\ ~lock_stuck
    /\ lock_ops.ops # <<>>
    /\ Head(lock_ops.ops) = "unlock"
    /\ lock_owner' = None
    /\ lock_ops' = [lock_ops EXCEPT !.ops = Tail(@)]
    /\ UNCHANGED lock_stuck
    /\ LockUnchanged

\* The steps of the reader thread of the pane whose mutex this is
LockPane == Ptys[1]
OtherReadersWait == \A p \in PtySet \ {LockPane} : reader'[p] = reader[p]
PaneReaderRead == ReaderRead /\ OtherReadersWait
PaneReaderEof == ReaderEof /\ OtherReadersWait
PaneReaderSend == ReaderSend /\ OtherReadersWait

LockNext ==
    \/ UiBegin
    \/ UiLock
    \/ UiUnlock
    \/ PaneReaderRead
    \/ PaneReaderEof
    \/ PaneReaderSend

SpecLock == AppInit /\ [][LockNext]_vars

-----------------------------------------------------------------------------
(* Properties of the PTY streams under SpecPty *)

\* C5: for each PTY, the bytes of the chunks its parser has consumed are a
\* prefix of the bytes its reader thread has read, at every frame boundary
\* and in between: no chunk is reordered, duplicated, or fed to the parser
\* of another PTY, whatever the interleaving of the readers and the drain.
C5_ConsumedIsPrefix ==
    \A p \in PtySet : IsPrefix(consumed[p], pty_read[p])

\* At a frame boundary both parsers have been fed, the first one several
\* chunks with different bytes, while a chunk of its stream is still on the
\* way.
C5_BothFedMidStream ==
    /\ ui.pc = "idle"
    /\ Len(consumed["p0"]) >= 2
    /\ consumed["p0"][1] # consumed["p0"][2]
    /\ Len(consumed["p0"]) < Len(pty_read["p0"])
    /\ consumed["p1"] # <<>>

----------------------------------------------------------------------------
(* Properties of the grid under SpecGrid *)

\* C1: in every reachable state the grid has at least one row and one column
\* and the cursor is inside it: 0 <= cursor_row < rows and
\* 0 <= cursor_col < cols; a pending wrap leaves the cursor on the grid.
C1_CursorInBounds ==
    /\ grid.rows >= 1 /\ grid.cols >= 1
    /\ grid.cursor_row >= 0 /\ grid.cursor_row < grid.rows
    /\ grid.cursor_col >= 0 /\ grid.cursor_col < grid.cols

\* A print at the last column of the widest grid has set pending_wrap and left
\* the cursor where it was.
C1_AtRightEdge ==
    /\ grid.cols = MaxCols
    /\ grid.pending_wrap
    /\ grid.cursor_col = grid.cols - 1
    /\ grid.cells[grid.cursor_row][grid.cursor_col].ch # NUL

\* C2: in every reachable state 0 <= scroll_top <= scroll_bottom < rows.
\* DECSTBM stores Pt - 1 and Pb - 1 without comparing them (parser.rs:328-329).
C2_ScrollRegionOrdered ==
    /\ 0 <= grid.scroll_top
    /\ grid.scroll_top <= grid.scroll_bottom
    /\ grid.scroll_bottom < grid.rows

CellsOrScrollbackChanged ==
    grid'.cells # grid.cells \/ grid'.scrollback # grid.scrollback

\* C6: every step that changes a cell or the scrollback leaves generation
\* strictly greater than before.  DCH shifts the cells of the cursor row and
\* does not touch generation (parser.rs:234-247).
C6_ContentChangeBumpsGeneration ==
    [][CellsOrScrollbackChanged => grid'.generation > grid.generation]_vars

NothingVisibleChanged ==
    /\ grid'.cells = grid.cells
    /\ grid'.cursor_row = grid.cursor_row
    /\ grid'.cursor_col = grid.cursor_col
    /\ grid'.scrollback = grid.scrollback

\* C7: a step that leaves every cell, the cursor position and the scrollback
\* as they were leaves generation unchanged.  scroll_up_region and
\* scroll_down_region add one before they test top >= bottom (grid.rs:118,
\* 156).
C7_NoChangeKeepsGeneration ==
    [][NothingVisibleChanged => grid'.generation = grid.generation]_vars

\* What one callback may do to the scrollback: k rows of the screen, taken in
\* order from row t down, are appended, and the d oldest rows are dropped,
\* d being the overflow over the limit.
ScrollbackStep ==
    LET sb == grid.scrollback
        sb2 == grid'.scrollback
        d == evicted'
        k == Len(sb2) - Len(sb) + d
    IN /\ k >= 0
       /\ d = Max(Len(sb) + k - grid.scrollback_limit, 0)
       /\ \E t \in 0..(grid.rows - 1) :
             /\ t + k <= grid.rows
             /\ sb2 = SubSeq(sb \o [i \in 1..k |-> grid.cells[t + i - 1]],
                             d + 1, Len(sb) + k)

C9_NoFault == fault = "none"

\* The bytes of PTY p that its reader holds or has sent and the parser has
\* not been fed: the chunks the UI took in this drain, the chunks in the
\* channel, the chunk in the hands of send
Held(p) ==
    IF ui.pc # "idle" /\ Head(ui.todo) = p THEN Concat(ui.chunks) ELSE <<>>

InFlight(p) ==
    Concat(channel[p]) \o (IF reader[p].pc = "send" THEN reader[p].data ELSE <<>>)

\* A reader whose send finds the channel full
Blocked(p) ==
    /\ reader[p].pc = "send"
    /\ receiver_alive[p]
    /\ Len(channel[p]) = ChannelCap

\* C17: a channel never holds more chunks than its capacity; a reader whose
\* send finds it full stays in that send, chunk in hand, until the UI takes
\* a chunk out; and while the session of a PTY lives, every byte its reader
\* read is with the parser, with the UI, in the channel or in that send, in
\* the order read.
C17_BoundedLossless ==
    /\ [](\A p \in PtySet :
            /\ Len(channel[p]) <= ChannelCap
            /\ receiver_alive[p] =>
                  pty_read[p] = consumed[p] \o Held(p) \o InFlight(p))
    /\ [][\A p \in PtySet : Blocked(p) => reader'[p] = reader[p]]_vars

\* The channel of the first PTY is full and its reader waits in send with
\* the next chunk
C17_ReaderBlocked ==
    /\ Blocked("p0")
    /\ reader["p0"].data # <<>>
    /\ consumed["p0"] = <<>>

\* The grid after one erase, ED or EL, with a mode the parser has an arm for
EraseOps ==
    {csi_dispatch(grid, performer, ps, NoInter, FALSE, action, FALSE) :
        action \in {"J", "K"}, ps \in {<<>>, <<0>>, <<1>>, <<2>>}}

\* The scroll counts tried
ScrollCounts == 1..(MaxRows + 1)

\* After one scroll_up_region(n) or scroll_down_region(n), called through SU
\* and SD and on the grid itself
ScrollOps ==
    {csi_dispatch(grid, performer, ps, NoInter, FALSE, action, FALSE) :
        action \in {"S", "T"}, ps \in Params1}
    \cup {Res(scroll_up_region(grid, n), performer, "none") : n \in ScrollCounts}
    \cup {Res(scroll_down_region(grid, n), performer, "none") : n \in ScrollCounts}

\* After one resize to another size
ResizeOps ==
    {Res(resize(grid, cols, rows), performer, "none") :
        <<cols, rows>> \in ((1..MaxCols) \X (1..MaxRows)) \ {<<grid.cols, grid.rows>>}}

\* After one logical operation on the grid as it stands, where the operation
\* runs to its end
LogicalOps ==
    {r \in {print(grid, performer, c) : c \in Chars}
           \cup EraseOps \cup ScrollOps \cup ResizeOps
           \cup {Res(clear_screen(grid), performer, "none")} : r.fault = "none"}

----------------------------------------------------------------------------
(* Properties of typed text under SpecTyping *)

\* C19: n narrow characters typed into an empty rows x cols grid with
\* auto-wrap on, 1 <= n <= rows * cols: the k-th of them, from 0, is at row
\* k div cols, column k mod cols; the cursor is at (n div cols, n mod cols)
\* with pending_wrap off when cols does not divide n, and on the last column
\* of the row of the last character with pending_wrap on when it does.
\* "abcdef" in the 4 x 4 grid leaves the cursor at row 1, column 2.
C19_TypedTextPlacement ==
    LET n == Len(typed)
        cols == grid.cols
    IN n >= 1 =>
         /\ fault = "none"
         /\ \A k \in 0..(n - 1) : grid.cells[k \div cols][k % cols].ch = typed[k + 1]
         /\ IF n % cols # 0
            THEN /\ grid.cursor_row = n \div cols
                 /\ grid.cursor_col = n % cols
                 /\ ~grid.pending_wrap
            ELSE /\ grid.cursor_row = (n - 1) \div cols
                 /\ grid.cursor_col = cols - 1
                 /\ grid.pending_wrap
         /\ (typed = ExampleText /\ cols = 4 /\ grid.rows = 4) =>
               (grid.cursor_row = 1 /\ grid.cursor_col = 2 /\ ~grid.pending_wrap)

\* "abcdef" is in the 4 x 4 grid: "abcd" on row 0, "ef" on row 1
C19_ExampleTyped ==
    /\ typed = ExampleText
    /\ grid.cols = 4 /\ grid.rows = 4
    /\ grid.cells[0][3].ch = "d"
    /\ grid.cells[1][1].ch = "f"
    /\ grid.cells[1][2] = DefaultCell

----------------------------------------------------------------------------
(* Properties of the scroll region under SpecScroll *)

\* The last limit elements of q
LastOf(q, limit) ==
    IF Len(q) <= limit THEN q ELSE SubSeq(q, Len(q) - limit + 1, Len(q))

\* Rows outside the region and the cursor stay
RestKept ==
    /\ \A r \in 0..(grid.rows - 1) :
          (r < grid.scroll_top \/ r > grid.scroll_bottom) => grid'.cells[r] = grid.cells[r]
    /\ grid'.cursor_row = grid.cursor_row
    /\ grid'.cursor_col = grid.cursor_col
    /\ grid'.rows = grid.rows /\ grid'.cols = grid.cols

\* What scroll_up_region(n) makes of the grid
ScrolledUp(n) ==
    LET top == grid.scroll_top
        bottom == grid.scroll_bottom
        out == [i \in 1..n |-> grid.cells[top + i - 1]]
    IN /\ grid'.scrollback = LastOf(grid.scrollback \o out, grid.scrollback_limit)
       /\ \A r \in (top + n)..bottom : grid'.cells[r - n] = grid.cells[r]
       /\ \A r \in (bottom - n + 1)..bottom : grid'.cells[r] = BlankRow(grid.cols)
       /\ RestKept

\* What scroll_down_region(n) makes of the grid
ScrolledDown(n) ==
    LET top == grid.scroll_top
        bottom == grid.scroll_bottom
    IN /\ grid'.scrollback = grid.scrollback
       /\ \A r \in top..(bottom - n) : grid'.cells[r + n] = grid.cells[r]
       /\ \A r \in top..(top + n - 1) : grid'.cells[r] = BlankRow(grid.cols)
       /\ RestKept

\* C20: with top < bottom and 1 <= n <= bottom - top + 1, scroll_up_region(n)
\* appends rows top .. top + n - 1 to the scrollback in that order (the
\* oldest rows going once the limit is passed), moves each row r of
\* top + n .. bottom to r - n, blanks the last n rows of the region and
\* leaves the rows outside the region and the cursor alone;
\* scroll_down_region(n) moves the rows of the region down by n, blanks its
\* first n rows and leaves the scrollback alone.
C20_ScrollMovesRegion ==
    [][\A n \in RegionCounts :
          /\ ScrollUpBy(n) => ScrolledUp(n)
          /\ ScrollDownBy(n) => ScrolledDown(n)
    ]_vars

\* Two rows of a four-row grid went to a roomy scrollback, in order, from a
\* region that ends above the last row; that row and the cursor on it stay
C20_TwoRowsScrolledOut ==
    /\ grid.rows = 4 /\ grid.scroll_top = 0 /\ grid.scroll_bottom = 2
    /\ grid.scrollback = <<MarkedRow(grid.cols, 0), MarkedRow(grid.cols, 1)>>
    /\ grid.cells[0] = MarkedRow(grid.cols, 2)
    /\ grid.cells[1] = BlankRow(grid.cols)
    /\ grid.cells[3] = MarkedRow(grid.cols, 3)
    /\ grid.cursor_row = 3

----------------------------------------------------------------------------
(* Properties of the pane tree and the window under SpecApp *)

PaneIdSet(t) == SeqToSet(t.panes)
LeafIdSet(t) == SeqToSet(pane_ids(t.layout))

\* C3: while the window exists, the leaf ids of the layout are exactly the
\* ids of the panes, each once: after every split (spawned or not) and every
\* close, the close of the last pane included.  close_pane puts Leaf(0) in
\* place of a layout that remove() emptied (pane/mod.rs:111).
C3_LeavesArePanes ==
    MainWindow \in windows =>
        /\ LeafIdSet(pane_tree) = PaneIdSet(pane_tree)
        /\ Len(pane_ids(pane_tree.layout)) = Len(pane_tree.panes)
        /\ Cardinality(LeafIdSet(pane_tree)) = Len(pane_tree.panes)

\* C4: whenever panes is non-empty, focused_id is the id of one of them.
C4_FocusPresent ==
    pane_tree.panes # <<>> => pane_tree.focused_id \in PaneIdSet(pane_tree)

\* A frame closed the dead focused pane and the focus went to the first of
\* the panes that remain, a pane other than the one the window began with.
C4_Refocused ==
    /\ frame.dead # {}
    /\ pane_tree.panes # <<>>
    /\ pane_tree.focused_id = pane_tree.panes[1]
    /\ pane_tree.focused_id # 0
    /\ pane_tree.focused_id + 1 < pane_tree.next_id

\* C10: a RedrawRequested frame leaves no pane that was dead at its start in
\* panes or among the leaves of the layout, drains and renders none of them,
\* and when no pane remains it hides the window, queues it for closing and
\* renders nothing.  With pane 0 the last to die, the layout is left as
\* Leaf(0) (see C3).
C10_DeadPanesGoFirst ==
    [][RedrawRequested =>
        LET was_dead == PaneIdSet(pane_tree) \cap dead
        IN /\ was_dead \cap PaneIdSet(pane_tree') = {}
           /\ was_dead \cap LeafIdSet(pane_tree') = {}
           /\ was_dead \cap (frame'.drained \cup frame'.rendered) = {}
           /\ pane_tree'.panes = <<>> =>
                 /\ ~visible'
                 /\ \E i \in 1..Len(pending_close') : pending_close'[i] = MainWindow
                 /\ frame'.drained = {} /\ frame'.rendered = {}
    ]_vars

Pending == \E i \in 1..Len(pending_close) : pending_close[i] = MainWindow

TimesQueued == Cardinality({i \in 1..Len(pending_close) : pending_close[i] = MainWindow})

\* What one step may do to the window around its closing
C11_Step ==
    \* the close of the last pane hides and queues the window
    /\ (pane_tree.panes # <<>> /\ pane_tree'.panes = <<>>) => (~visible' /\ Pending')
    \* the event that queues the window hides it and keeps its state
    /\ (~Pending /\ Pending') => (~visible' /\ TimesQueued' = 1 /\ windows' = windows)
    \* a queued window changes at about_to_wait only, which drops it
    /\ Pending =>
         \/ UNCHANGED <<pane_tree, windows, visible, pending_close, frame, last_split,
                        config, app_config>>
         \/ /\ windows' = windows \ {MainWindow}
            /\ pending_close' = <<>>
            /\ UNCHANGED <<pane_tree, visible, frame, last_split, config, app_config>>
    \* the state of a window is dropped from the queue only
    /\ windows' # windows => Pending

\* C11: the close of the last pane, like a close request, hides the window
\* at once and puts it in pending_close exactly once; the window keeps its
\* state until the next about_to_wait, and until then no event delivered for
\* it changes anything.
C11_DeferredClose ==
    /\ [](TimesQueued <= 1 /\ (Pending => ~visible /\ MainWindow \in windows))
    /\ [][C11_Step]_vars

\* The last pane was closed: the window is hidden and queued, not yet dropped
C11_HiddenAndQueued ==
    /\ Pending
    /\ MainWindow \in windows
    /\ ~visible
    /\ pane_tree.panes = <<>>
    /\ pane_tree.next_id > 1

\* C12: a split whose spawn fails returns an error and leaves panes, layout
\* and focused_id as they were: no pane and no leaf is added and the focus
\* does not move.
C12_FailedSplitKeepsTree ==
    [][(SplitHorizontal \/ SplitVertical) /\ last_split' = "Err" =>
          /\ pane_tree'.panes = pane_tree.panes
          /\ pane_tree'.layout = pane_tree.layout
          /\ pane_tree'.focused_id = pane_tree.focused_id
    ]_vars

\* A split of a two-pane window failed, with the focus on the second pane
C12_SplitFailed ==
    /\ last_split = "Err"
    /\ Len(pane_tree.panes) = 2
    /\ pane_tree.focused_id = pane_tree.panes[2]

\* C13: when the hot reload of a frame finds a config file that does not
\* parse, the config of the app and the config of the renderer stay as they
\* were.  load_or_default answers a parse failure with the defaults, and the
\* frame installs them over a configuration the user had loaded.
C13_BadConfigKeepsPrevious ==
    [][RedrawRequested /\ config_rx > 0 /\ from_str(config_file) = None =>
          config' = config /\ app_config' = app_config
    ]_vars

\* C14: PaneTree::new gives its pane id 0 with next_id 1, and every pane a
\* split adds gets the next_id of the moment, above every id handed out
\* before; next_id never goes back, so no id comes again, after closes and
\* failed splits as well.
C14_IdsMonotone ==
    /\ [](\A i \in 1..Len(pane_tree.panes) :
            /\ pane_tree.panes[i] < pane_tree.next_id
            /\ \A j \in 1..(i - 1) : pane_tree.panes[j] < pane_tree.panes[i])
    /\ [][/\ pane_tree'.next_id >= pane_tree.next_id
          /\ \A id \in PaneIdSet(pane_tree') \ PaneIdSet(pane_tree) :
                /\ id = pane_tree.next_id
                /\ id < pane_tree'.next_id
                /\ \A old \in PaneIdSet(pane_tree) : old < id
          /\ (SplitHorizontal \/ SplitVertical) =>
                pane_tree'.next_id = pane_tree.next_id + 1
       ]_vars

\* Pane 2 was made after id 1 had been given away, to a pane since closed or
\* to a split that failed
C14_IdSkipped ==
    /\ pane_tree.panes = <<0, 2>>
    /\ pane_tree.next_id = 3

\* The ids of the panes a step closed
ClosedIds == PaneIdSet(pane_tree) \ PaneIdSet(pane_tree')

\* A key or a frame closed exactly one pane
OneClosed == (ClosePane \/ RedrawRequested) /\ Cardinality(ClosedIds) = 1

Without(q, id) == SelectSeq(q, LAMBDA x : x # id)

\* What close_pane(id) does to panes and to the layout: the pane goes, its
\* leaf goes from a layout that has a split, the other leaves keep their
\* order, and a split of two leaves becomes the leaf that stays.  Closing P1
\* after splitting P0 leaves Leaf(P0) with P0 focused.
CloseRemoves(id) ==
    /\ pane_tree'.panes = Without(pane_tree.panes, id)
    /\ Len(pane_tree.panes) >= 2 =>
          pane_ids(pane_tree'.layout) = Without(pane_ids(pane_tree.layout), id)
    /\ Len(pane_tree.panes) = 2 =>
          pane_tree'.layout = Leaf(Head(Without(pane_tree.panes, id)))
    /\ (pane_tree.panes = <<0, 1>> /\ id = 1) =>
          (pane_tree'.layout = Leaf(0) /\ pane_tree'.focused_id = 0)

----------------------------------------------------------------------------
(* Properties of the layout under SpecLayout *)

\* The ratios of the splits of a layout
RECURSIVE Ratios(_)
Ratios(l) ==
    IF l.kind = "Leaf" THEN {}
    ELSE IF l.kind = "HSplit" THEN {l.ratio} \cup Ratios(l.left) \cup Ratios(l.right)
    ELSE {l.ratio} \cup Ratios(l.top) \cup Ratios(l.bottom)

\* C15: with every split made at 0.5, whatever the resizes, their directions
\* and the focused pane, every split ratio of the layout is within
\* [0.1, 0.9]: 10 to 90 hundredths.
C15_RatiosClamped ==
    \A r \in Ratios(pane_tree.layout) : 10 <= r /\ r <= 90

\* Resizes took the outer split of a three-pane layout to 0.9 and another
\* split stands at 0.5
C15_AtUpperEnd ==
    /\ Len(pane_tree.panes) = 3
    /\ pane_tree.layout.kind # "Leaf"
    /\ pane_tree.layout.ratio = 90
    /\ 50 \in Ratios(pane_tree.layout)

\* l with the delta of its kind added to the split that has Leaf(target_id)
\* as a direct child, and every other ratio as it is
RECURSIVE NudgedAtParent(_, _, _, _)
NudgedAtParent(l, target_id, h_delta, v_delta) ==
    LET is_target(child) == child.kind = "Leaf" /\ child.id = target_id
    IN  IF l.kind = "HSplit" THEN
            HSplit(NudgedAtParent(l.left, target_id, h_delta, v_delta),
                   NudgedAtParent(l.right, target_id, h_delta, v_delta),
                   IF is_target(l.left) \/ is_target(l.right)
                   THEN clamp(l.ratio + h_delta, RatioMin, RatioMax) ELSE l.ratio)
        ELSE IF l.kind = "VSplit" THEN
            VSplit(NudgedAtParent(l.top, target_id, h_delta, v_delta),
                   NudgedAtParent(l.bottom, target_id, h_delta, v_delta),
                   IF is_target(l.top) \/ is_target(l.bottom)
                   THEN clamp(l.ratio + v_delta, RatioMin, RatioMax) ELSE l.ratio)
        ELSE l

\* C33: nudge_ratio_for(target, h_delta, v_delta), and so resize_focused,
\* changes the ratio of only the innermost split that has Leaf(target) as a
\* direct child (by h_delta for an HSplit, by v_delta for a VSplit, clamped to
\* [0.1, 0.9]) and leaves every other ratio, those of the enclosing splits
\* included, unchanged.
C33_NudgesInnermostSplit ==
    \A h_delta \in {0 - ResizeDelta, 0, ResizeDelta} :
    \A v_delta \in {0 - ResizeDelta, 0, ResizeDelta} :
        nudge_ratio_for(pane_tree.layout, pane_tree.focused_id, h_delta, v_delta)
          = NudgedAtParent(pane_tree.layout, pane_tree.focused_id, h_delta, v_delta)

-----------------------------------------------------------------------------
(* Directional focus *)

\* The layout HSplit(A, VSplit(B, C, 0.5), 0.5) with A = 0, B = 1, C = 2, in a
\* 200 x 200 rect
ExampleLayout == HSplit(Leaf(0), VSplit(Leaf(1), Leaf(2), 50), 50)
ExampleRects == compute_rects(ExampleLayout, Rect(0, 0, 200, 200))
ExampleTree(focused) ==
    [panes |-> <<0, 1, 2>>, layout |-> ExampleLayout, focused_id |-> focused, next_id |-> 3]

\* The candidate's opposing edge lies on the focused pane's leading edge, to
\* within a pixel
Flush(rect, f, dir) ==
    CASE dir = "Left"  -> rect.x + rect.width \in (f.x - 1)..(f.x + 1)
      [] dir = "Right" -> rect.x \in (f.x + f.width - 1)..(f.x + f.width + 1)
      [] dir = "Up"    -> rect.y + rect.height \in (f.y - 1)..(f.y + 1)
      [] dir = "Down"  -> rect.y \in (f.y + f.height - 1)..(f.y + f.height + 1)

\* The candidate's opposing edge lies on the focused pane's leading edge or
\* anywhere past it
FlushOrBeyond(rect, f, dir) ==
    CASE dir = "Left"  -> rect.x + rect.width - 1 <= f.x
      [] dir = "Right" -> f.x + f.width - 1 <= rect.x
      [] dir = "Up"    -> rect.y + rect.height - 1 <= f.y
      [] dir = "Down"  -> f.y + f.height - 1 <= rect.y

WindowRects == compute_rects(pane_tree.layout, ContentRect)
FocusedRect == FindRect(WindowRects, pane_tree.focused_id)[1]

\* The positions in WindowRects of the other panes that Edge lets through
Candidates(dir, Edge(_, _, _)) ==
    {i \in 1..Len(WindowRects) :
        /\ WindowRects[i][1] # pane_tree.focused_id
        /\ Edge(WindowRects[i][2], FocusedRect, dir)}

\* Those of them no other is nearer than
Nearest(cands) ==
    {i \in cands : \A j \in cands :
        Dist(WindowRects[i][2], FocusedRect) <= Dist(WindowRects[j][2], FocusedRect)}

FocusAfter(dir) == focus_direction(pane_tree, WindowRects, dir).focused_id

\* C21, as stated: focus_direction focuses a pane of smallest squared centre
\* distance among the panes flush with the focused pane's leading edge, and
\* leaves the focus alone when no pane is flush
C21_NearestFlushPane ==
    \A dir \in Directions :
        LET flush == Candidates(dir, Flush)
        IN IF flush = {} THEN FocusAfter(dir) = pane_tree.focused_id
           ELSE \E i \in Nearest(flush) : FocusAfter(dir) = WindowRects[i][1]

\* C21, amended: focus_direction focuses the pane of smallest squared centre
\* distance among the other panes whose opposing edge is flush with or beyond
\* the focused pane's leading edge (the first such pane in layout order when
\* several are as near), changes nothing but the focus, and leaves the focus
\* alone when there is no such pane; in the example layout Right from A
\* focuses B and Down from B focuses C
C21_NearestPaneAtOrBeyond ==
    /\ \A dir \in Directions :
        LET cands == Candidates(dir, FlushOrBeyond)
            after == focus_direction(pane_tree, WindowRects, dir)
        IN /\ after = [pane_tree EXCEPT !.focused_id = after.focused_id]
           /\ IF cands = {} THEN after.focused_id = pane_tree.focused_id
              ELSE after.focused_id =
                     WindowRects[CHOOSE i \in Nearest(cands) : \A j \in Nearest(cands) : i <= j][1]
    /\ focus_direction(ExampleTree(0), ExampleRects, "Right").focused_id = 1
    /\ focus_direction(ExampleTree(1), ExampleRects, "Down").focused_id = 2

\* A pane past a flush neighbour is nearer than every flush pane, and takes
\* the focus
C21_BeyondIsNearer ==
    \E dir \in Directions :
        /\ Candidates(dir, Flush) # {}
        /\ FocusAfter(dir) \notin {WindowRects[i][1] : i \in Candidates(dir, Flush)}

-----------------------------------------------------------------------------
(* Springs *)

\* 0.01 pixel
Hundredth == Fix \div 100

TargetInRange(ss) == ss.spring.target >= 0 /\ ss.spring.target <= ss.max_offset
OffsetInRange(ss) ==
    pixel_offset(ss) >= 0 /\ pixel_offset(ss) <= ss.max_offset + 50 * Fix

\* C29: for a ScrollSpring with max_offset >= 0, under any sequence of
\* scroll_by, set_target_pixels, snap_to_bottom and tick calls, the target is
\* within [0, max_offset] after every scroll_by, set_target_pixels and tick,
\* and the pixel offset is within [0, max_offset + 50] after every tick
C29_ScrollSpringBounds ==
    [][/\ (ScrollBy \/ SetTargetPixels \/ ScrollTick) => TargetInRange(TheSpring')
       /\ ScrollTick => OffsetInRange(TheSpring')]_vars

\* The spring has been ticked toward a target that was cut at max_offset,
\* and is on its way there
C29_TickedTowardMax ==
    /\ ticks = MaxScrollTicks
    /\ TheSpring.max_offset > 0
    /\ TheSpring.spring.target = TheSpring.max_offset
    /\ pixel_offset(TheSpring) > 0
    /\ pixel_offset(TheSpring) < TheSpring.max_offset

-----------------------------------------------------------------------------
(* The renderer's pane state *)

AtBottom(ss) ==
    ss.spring.target = 0 /\ ss.spring.position = 0 /\ ss.spring.velocity = 0

\* C22: every key press forwarded to the focused pane as a non-empty byte
\* sequence sets that pane's scroll spring to target 0, position 0 and
\* velocity 0, and clears the selection
C22_KeySnapsAndDeselects ==
    [][KeyInput =>
         /\ pane_tree.focused_id \in DOMAIN scroll_springs'
         /\ AtBottom(scroll_springs'[pane_tree.focused_id])
         /\ selection' = None]_vars

\* The focused pane is scrolled up and on the move, and text is selected
C22_ScrolledWithSelection ==
    /\ WindowLive
    /\ selection # None
    /\ pane_tree.focused_id \in DOMAIN scroll_springs
    /\ LET ss == scroll_springs[pane_tree.focused_id]
       IN ss.spring.target > 0 /\ ss.spring.position > 0 /\ ss.spring.velocity > 0

\* C23: the renderer holds a cursor animator or a scroll spring for the
\* panes of the tree only: none for a pane that was closed or whose shell
\* exited
C23_NoStateForRemovedPanes ==
    (DOMAIN scroll_springs \cup cursor_animators) \subseteq SeqToSet(pane_tree.panes)

-----------------------------------------------------------------------------
(* Selection *)

\* C24: on an empty grid with empty scrollback, after a string of 1 to cols
\* printable width-1 characters has been printed, extract_selection((0, 0),
\* (0, len - 1)) returns the string without its trailing spaces
C24_SelectionRoundTrip ==
    (Len(typed) \in 1..grid.cols /\ fault = "none")
        => extract_selection(grid, <<0, 0>>, <<0, Len(typed) - 1>>) = trim_end(typed)

\* A row was filled with a string that has a space inside and one at its end
C24_SpacesInsideAndAtEnd ==
    /\ Len(typed) = grid.cols
    /\ Len(typed) >= 3
    /\ typed[1] # " "
    /\ typed[2] = " "
    /\ typed[Len(typed)] = " "
    /\ extract_selection(grid, <<0, 0>>, <<0, Len(typed) - 1>>) = <<typed[1]>>

----------------------------------------------------------------------------
(* Properties of the input decoder under SpecInput *)

TheEvent == event[1]
TheKey == TheEvent.key_event.logical_key
TheAction == input_action[1]

\* a press of a letter with Ctrl held and Cmd not held
CtrlLetterPressed ==
    /\ event # None
    /\ TheEvent.key_event.state = "Pressed"
    /\ TheKey.kind = "Character"
    /\ TheKey.ch \in Letters
    /\ TheEvent.modifiers.ctrl
    /\ ~TheEvent.modifiers.cmd

ControlCode == WriteBytes(<<to_ascii_uppercase(TheKey.ch) - 65 + 1>>)

\* Ctrl+F with neither Shift nor Alt: the window-tile key of input/mod.rs:104-107
CtrlF ==
    /\ to_ascii_uppercase(TheKey.ch) = 70
    /\ ~TheEvent.modifiers.shift
    /\ ~TheEvent.modifiers.alt

\* C25 as stated: every press of a letter A-Z, in either case, with Ctrl held
\* and Cmd not held is decoded to WriteBytes of the one byte
\* letter_upper - 'A' + 1.
C25_CtrlLetterIsControlCode ==
    CtrlLetterPressed => TheAction = ControlCode

\* C25 as the code has it: a press of a letter with Ctrl held and Cmd not held
\* is decoded to WriteBytes of the one byte letter_upper - 'A' + 1, except
\* Ctrl+F with neither Shift nor Alt held, which is decoded to Maximize.
C25_CtrlLetterExceptMaximize ==
    CtrlLetterPressed =>
        TheAction = IF CtrlF THEN InputAction("Maximize") ELSE ControlCode

\* Ctrl+C was pressed and decoded to the byte 0x03
C25_CtrlCDecoded ==
    /\ CtrlLetterPressed
    /\ TheKey.ch = 99
    /\ TheAction = WriteBytes(<<3>>)

\* a press of the named key with Alt held and no Ctrl, Shift or Cmd
AltPressed(named) ==
    /\ event # None
    /\ TheEvent.key_event.state = "Pressed"
    /\ TheKey = Named(named)
    /\ TheEvent.modifiers = [cmd |-> FALSE, shift |-> FALSE, ctrl |-> FALSE, alt |-> TRUE]

\* C26: with Alt held and no Ctrl, Shift or Cmd, a press of ArrowLeft is
\* encoded as the bytes ESC 'b' and a press of ArrowRight as ESC 'f'.
C26_AltArrowsMoveByWord ==
    /\ AltPressed("ArrowLeft") => TheAction = WriteBytes(<<27, 98>>)
    /\ AltPressed("ArrowRight") => TheAction = WriteBytes(<<27, 102>>)

----------------------------------------------------------------------------
(* Properties of the attributes under SpecSgr *)

\* What the claim says one group does to the attributes
GroupEffect(attrs, grp) ==
    LET p == grp[1]
        color == IF grp[2] = 5 THEN Indexed(grp[3]) ELSE Rgb(grp[3], grp[4], grp[5])
    IN  IF p = 0 THEN DefaultAttrs
        ELSE IF p \in 30..37 THEN [attrs EXCEPT !.fg = Indexed(p - 30)]
        ELSE IF p \in 90..97 THEN [attrs EXCEPT !.fg = Indexed(p - 90 + 8)]
        ELSE IF p \in 40..47 THEN [attrs EXCEPT !.bg = Indexed(p - 40)]
        ELSE IF p \in 100..107 THEN [attrs EXCEPT !.bg = Indexed(p - 100 + 8)]
        ELSE IF p = 38 THEN [attrs EXCEPT !.fg = color]
        ELSE IF p = 48 THEN [attrs EXCEPT !.bg = color]
        ELSE IF p = 39 THEN [attrs EXCEPT !.fg = ColorDefault]
        ELSE IF p = 49 THEN [attrs EXCEPT !.bg = ColorDefault]
        ELSE IF p = 1 THEN [attrs EXCEPT !.bold = TRUE]
        ELSE IF p = 3 THEN [attrs EXCEPT !.italic = TRUE]
        ELSE IF p = 7 THEN [attrs EXCEPT !.reverse = TRUE]
        ELSE IF p = 22 THEN [attrs EXCEPT !.bold = FALSE, !.dim = FALSE]
        ELSE attrs

\* the groups of a list applied one after the other, the leftmost first
RECURSIVE LeftToRight(_, _)
LeftToRight(attrs, groups) ==
    IF groups = <<>> THEN attrs
    ELSE LeftToRight(GroupEffect(attrs, Head(groups)), Tail(groups))

RECURSIVE Flat(_)
Flat(groups) == IF groups = <<>> THEN <<>> ELSE Head(groups) \o Flat(Tail(groups))

MaxSgrChecked == 3

\* every color group: each code of the four ranges, 38 and 48 with every
\* index and with the triples
ColorGroups ==
    {<<p>> : p \in (30..37) \cup (90..97) \cup (40..47) \cup (100..107) \cup {39, 49}}
      \cup {<<k, 5, n>> : k \in {38, 48}, n \in 0..255}
      \cup {<<k, 2, c[1], c[2], c[3]>> : k \in {38, 48}, c \in ColorTriples}

\* C27: apply_sgr processes its parameters left to right: the empty list and 0
\* reset the attributes to the default; 30-37 and 90-97 set fg to Indexed(0-7)
\* and Indexed(8-15), 40-47 and 100-107 the same for bg; 38 and 48 with 5;n or
\* 2;r;g;b consume exactly those parameters as one color and processing
\* continues after them; 39 and 49 restore Default; every attribute that no
\* parameter names keeps its value.
C27_SgrLeftToRight ==
    LET attrs == grid.current_attrs
    IN  /\ apply_sgr(attrs, <<>>) = DefaultAttrs
        /\ \A grp \in ColorGroups : apply_sgr(attrs, grp) = GroupEffect(attrs, grp)
        /\ \A n \in 1..MaxSgrChecked : \A groups \in [1..n -> SgrGroups] :
              apply_sgr(attrs, Flat(groups)) = LeftToRight(attrs, groups)

\* SGR sequences have set a truecolor foreground, an indexed background and
\* bold
C27_ColorsAndBoldSet ==
    /\ grid.current_attrs.fg = Rgb(255, 128, 0)
    /\ grid.current_attrs.bg = Indexed(4)
    /\ grid.current_attrs.bold

----------------------------------------------------------------------------
(* Properties of URL detection under SpecUrl *)

\* columns c0..c1-1 of the row are URL characters with none before and none
\* after them
Delimited(row, c0, c1) ==
    /\ \A c \in c0..(c1 - 1) : is_url_char(row[c + 1])
    /\ c0 = 0 \/ ~is_url_char(row[c0])
    /\ c1 = Len(row) \/ ~is_url_char(row[c1 + 1])

\* the text ends in punctuation: one of . , ; : ! ? ' " or a closing
\* parenthesis that nothing in the text opens
TrailingPunctuation(text) ==
    \/ text[Len(text)] \in StrippedPunctuation
    \/ text[Len(text)] = ")" /\ ~cells_contain(text, 0, Len(text), "(")

\* scheme http:// or https://, a '.' after the scheme, no trailing punctuation
Normalized(text) ==
    /\ \E scheme \in {Https, Http} :
          /\ starts_with_at(text, 0, scheme)
          /\ \E k \in (Len(scheme) + 1)..Len(text) : text[k] = "."
    /\ ~TrailingPunctuation(text)

\* no http://, https:// or www. starts in the row outside columns c0..c1-1
NothingElse(row, c0, c1) ==
    \A c \in (0..(Len(row) - 1)) \ (c0..(c1 - 1)) :
        \A s \in Schemes : ~starts_with_at(row, c, s)

\* the row holds exactly one URL, normalized, in columns c0..c1-1
OneNormalizedUrl(row, c0, c1) ==
    /\ c0 < c1
    /\ Delimited(row, c0, c1)
    /\ Normalized(Slice(row, c0, c1))
    /\ NothingElse(row, c0, c1)

\* C28: for a row that holds exactly one URL in normalized form, delimited by
\* non-URL characters or the ends of the row, detect_urls returns exactly one
\* entry: the URL itself with the columns [col_start, col_end) it occupies.
C28_NormalizedUrlVerbatim ==
    url_matches # None =>
        \A c0 \in 0..Len(url_row), c1 \in 0..Len(url_row) :
            OneNormalizedUrl(url_row, c0, c1) =>
                url_matches = Some(<< <<c0, c1, Slice(url_row, c0, c1)>> >>)

\* "XX https://x.x YY" was searched and gave the URL in columns 3..13
C28_UrlBetweenWords ==
    /\ url_row = <<"X", "X", " ">> \o Https \o <<"x", ".", "x">> \o <<" ", "Y", "Y">>
    /\ OneNormalizedUrl(url_row, 3, 14)
    /\ url_matches = Some(<< <<3, 14, Https \o <<"x", ".", "x">>>> >>)

----------------------------------------------------------------------------
(* Properties of line insertion and deletion under SpecLines *)

CursorInRegion ==
    grid.scroll_top <= grid.cursor_row /\ grid.cursor_row <= grid.scroll_bottom

\* the rows of the grid above the cursor row stay as they are
RowsAboveCursorKept ==
    \A r \in 0..(grid.cursor_row - 1) : grid'.cells[r] = grid.cells[r]

\* C34: CSI Pn L and CSI Pn M with the cursor inside the scroll region leave
\* the rows of the region above the cursor row unchanged: only the rows from
\* the cursor row to scroll_bottom are shifted down (IL) or up (DL).
C34_LinesShiftFromCursorRow ==
    [][\A n \in RegionCounts :
          (CursorInRegion /\ (InsertLines(n) \/ DeleteLines(n))) => RowsAboveCursorKept
    ]_vars

----------------------------------------------------------------------------
(* Properties of CSI Pn b under SpecRep *)

\* c printed n times
RECURSIVE PrintTimes(_, _, _, _)
PrintTimes(g, p, c, n) ==
    IF n = 0 THEN g ELSE PrintTimes(print(g, p, c).g, p, c, n - 1)

SameScreen(g1, g2) ==
    /\ g1.cells = g2.cells
    /\ g1.cursor_row = g2.cursor_row
    /\ g1.cursor_col = g2.cursor_col
    /\ g1.pending_wrap = g2.pending_wrap

\* C36: CSI Pn b has the same effect on cells, cursor and pending_wrap as
\* printing the most recently printed character Pn more times, in every state
\* reached after a print, also after a cursor movement and when the last print
\* left pending_wrap set.
C36_RepIsRepeatedPrint ==
    [][\A n \in RepCounts :
          RepeatBy(n) =>
              SameScreen(grid', PrintTimes(grid, performer, typed[Len(typed)], n))
    ]_vars

----------------------------------------------------------------------------
(* Properties of the alternate screen under SpecAlt *)

\* every row blank, the region the full screen
ClearedAndReset(g) ==
    /\ \A r \in 0..(g.rows - 1) : g.cells[r] = BlankRow(g.cols)
    /\ g.scroll_top = 0
    /\ g.scroll_bottom = g.rows - 1

\* C35: CSI ?1049 h clears all rows, resets the scroll region and homes the
\* cursor; a later CSI ?1049 l clears all rows, resets the region and puts the
\* cursor back where it was when the matching CSI ?1049 h was processed
\* (clamped to the grid), whatever was processed in between, ESC 7 and CSI s
\* included.
C35_AltScreenRestoresCursor ==
    [][/\ AltEnter =>
            /\ ClearedAndReset(grid')
            /\ grid'.cursor_row = 0 /\ grid'.cursor_col = 0
       /\ AltLeave =>
            /\ ClearedAndReset(grid')
            /\ grid'.cursor_row = Min(alt_cursor[1][1], grid.rows - 1)
            /\ grid'.cursor_col = Min(alt_cursor[1][2], grid.cols - 1)
    ]_vars

----------------------------------------------------------------------------
(* Properties of the reader threads under SpecDrop *)

\* C38: the per-frame drain terminates even when a reader thread keeps
\* producing: one call of try_recv_all returns after a bounded number of
\* chunks, at most what the channel can hold at a time.
C38_DrainTakesBoundedChunks ==
    ui.pc = "recv" => Len(ui.chunks) <= ChannelCap

\* C39: after a pane is closed and its session dropped, the pane's reader
\* thread eventually terminates.
C39_ReaderTerminates ==
    \A p \in PtySet : (~receiver_alive[p]) ~> (reader[p].pc = "done")

-----------------------------------------------------------------------------
(* Properties: the text caches *)

\* C31: whenever a frame has refreshed the caches to build its text areas, the
\* visible cache entry of the pane holds the buffers of the pane's current
\* cells, whatever the parser did to the grid since the frame before.
C31_VisibleCacheIsCurrent ==
    [][ticks' # ticks =>
          /\ text_cache' # None
          /\ text_cache'[1][2] = build_span_buffers(grid')]_vars

\* C32: whenever the scrollback cache entry of the pane is used by a frame, it
\* holds the buffers of the rows now stored at first_abs..scrollback.len(),
\* also after rows were pushed into a scrollback at its limit.
C32_ScrollbackCacheIsCurrent ==
    [][ticks' # ticks /\ scrollback_text_cache' # None =>
          scrollback_text_cache'[1][2] =
              build_scrollback_span_buffers(
                  grid'.scrollback, scrollback_text_cache'[1][1][2],
                  Len(grid'.scrollback))]_vars

-----------------------------------------------------------------------------
(* Properties: clicks on URLs *)

\* The URL that detect_urls finds now at the cell where the button went
\* down, or None
UrlAtClickedCell ==
    LET found == url_at_cell(pane_tree, grid, pane_tree.focused_id,
                             selection[1].anchor[1], selection[1].anchor[2])
    IN IF found = None THEN None ELSE Some(found[1][3])

\* C40: when a click (press and release on the same cell) launches a URL, the
\* launched string is the URL that detect_urls finds at the clicked cell in
\* the grid as it is at the click; a hovered URL recorded before PTY output
\* changed the row is not what is launched.
C40_ClickLaunchesUrlAtCell ==
    [][(mouse_button_down /\ ~mouse_button_down' /\ Launches)
          => launched' = UrlAtClickedCell]_vars

-----------------------------------------------------------------------------
(* Properties: the grid mutex *)

\* C37: a pane's grid mutex is held by the UI thread or by nobody, never by a
\* reader thread, and the UI thread never locks it while holding it: on every
\* code path the guard is dropped before the next lock, so no thread waits
\* for a mutex it holds itself.
C37_GridLockNeverReentered ==
    /\ ~lock_stuck
    /\ lock_owner \in {None, Some(UiThread)}
    /\ lock_owner # None =>
          lock_ops.ops # <<>> /\ Head(lock_ops.ops) = "unlock"

\* The UI thread holds the second guard of a line feed while a reader thread
\* is about to send
C37_Witness ==
    /\ lock_ops.path = "execute_lf"
    /\ lock_ops.ops = <<"unlock">>
    /\ lock_owner = Some(UiThread)
    /\ reader[LockPane].pc = "send"

====
